---- MODULE Spec2Model ----
(***************************************************************************)
(* git_count: a command line tool that runs `git log`, parses its output   *)
(* into commit records, aggregates them and renders the result.            *)
(*                                                                         *)
(* Text is modelled as a sequence of one-character (or one-lexeme) strings,*)
(* a command's standard output as the sequence of its lines, a Python dict *)
(* as the sequence of its <<key, value>> items in insertion order, a value *)
(* of type Optional as <<>> (None) or <<v>>, and standard output as the    *)
(* sequence of the things printed, each <<kind, payload>>.                 *)
(***************************************************************************)
EXTENDS Integers, Sequences, FiniteSets, TLC

VARIABLES
    pc,               \* where the running program is
    entry,            \* the function the caller invoked
    args,             \* its arguments (main: the parsed command line)
    calls,            \* external commands run so far, with their outcomes
    out,              \* what was printed to standard output, in order
    files,            \* files written
    notes,            \* desktop notifications sent
    grouped_commits,  \* get_git_logs' first result
    commit_data,      \* get_git_logs' second result
    churn_data,       \* get_file_churn's result
    velocity_data,    \* get_velocity's result
    stats,            \* get_commit_details' result
    clock,            \* the date datetime.now() gave, once it was read
    terminal,         \* the columns of the terminal; None: there is none
    line,             \* one `commit` line of the log output
    parsed            \* what the loop body made of it

vars == <<pc, entry, args, calls, out, files, notes, grouped_commits,
          commit_data, churn_data, velocity_data, stats, clock, terminal,
          line, parsed>>

-----------------------------------------------------------------------------
(* Bounds of the model *)

\* lines of standard output of one `git log` run
MaxLines == 3
\* lexemes in the single line the loop body is applied to
MaxLineLen == 5
\* largest max_commits tried
MaxCap == 2
\* commit records handed to get_commit_details
MaxCommits == 3
\* lines of standard output of one `git log --name-only` run
MaxChurnLines == 3
\* largest top_n tried
MaxTopN == 2
\* lines of standard output of one `git log --numstat` run
MaxVelocityLines == 3
\* lines of standard output of the `git log` that main runs
MaxMainLines == 2
\* commit records handed to calculate_streaks
MaxStreakCommits == 4
\* items of the data handed to a rendering routine
MaxRenderItems == 2
\* the greatest count in that data
MaxCount == 3
\* commits of one day in the data handed to render_contribution_heatmap
MaxDayCommits == 16
\* the greatest count in the data handed to render_bars
MaxBarCount == 11
\* values in the list handed to render_boxplot
MaxBoxValues == 4

-----------------------------------------------------------------------------
(* Python values *)

None == <<>>

Some(v) == <<v>>

Min(S) == CHOOSE x \in S : \A y \in S : x <= y

Max(S) == CHOOSE x \in S : \A y \in S : x >= y

BoundedSeq(S, n) == UNION {[1..k -> S] : k \in 0..n}

Whitespace == {" ", "\t"}

RECURSIVE lstrip(_)
lstrip(s) ==
    IF s # <<>> /\ Head(s) \in Whitespace THEN lstrip(Tail(s)) ELSE s

RECURSIVE rstrip(_)
rstrip(s) ==
    IF s # <<>> /\ s[Len(s)] \in Whitespace
    THEN rstrip(SubSeq(s, 1, Len(s) - 1))
    ELSE s

\* str.strip()
strip(s) == rstrip(lstrip(s))

\* str.split(sep, maxsplit); maxsplit = -1 splits at every separator
RECURSIVE split(_, _, _)
split(s, sep, maxsplit) ==
    LET at == {i \in 1..Len(s) : s[i] = sep}
    IN  IF maxsplit = 0 \/ at = {}
        THEN <<s>>
        ELSE LET i == Min(at)
             IN  <<SubSeq(s, 1, i - 1)>>
                 \o split(SubSeq(s, i + 1, Len(s)), sep, maxsplit - 1)

\* seq[:n]
SliceTo(s, n) ==
    IF n >= 0
    THEN SubSeq(s, 1, Min({n, Len(s)}))
    ELSE SubSeq(s, 1, Max({Len(s) + n, 0}))

\* d[k] += 1 on a defaultdict(int): a new key is inserted last
DictInc(d, k) ==
    IF \E i \in 1..Len(d) : d[i][1] = k
    THEN [i \in 1..Len(d) |-> IF d[i][1] = k THEN <<k, d[i][2] + 1>> ELSE d[i]]
    ELSE Append(d, <<k, 1>>)

DictKeys(d) == {d[i][1] : i \in 1..Len(d)}

DictGet(d, k) == d[CHOOSE i \in 1..Len(d) : d[i][1] = k][2]

-----------------------------------------------------------------------------
(* datetime *)

\* A datetime: its local fields and its offset from UTC in minutes
Datetime(y, m, d, h, mi, off) ==
    [year |-> y, month |-> m, day |-> d, hour |-> h, minute |-> mi,
     second |-> 0, utcoffset |-> off]

IsLeap(year) == year % 4 = 0 /\ (year % 100 # 0 \/ year % 400 = 0)

DaysInMonth(year, month) ==
    IF month = 2 /\ IsLeap(year)
    THEN 29
    ELSE <<31, 28, 31, 30, 31, 30, 31, 31, 30, 31, 30, 31>>[month]

RECURSIVE DaysBeforeMonth(_, _)
DaysBeforeMonth(year, month) ==
    IF month = 1
    THEN 0
    ELSE DaysBeforeMonth(year, month - 1) + DaysInMonth(year, month - 1)

DaysBeforeYear(year) ==
    LET y == year - 1
    IN  y * 365 + y \div 4 - y \div 100 + y \div 400

\* date.toordinal(): 0001-01-01 is day 1
toordinal(date) ==
    DaysBeforeYear(date.year) + DaysBeforeMonth(date.year, date.month) + date.day

\* date.weekday(): Monday is 0
weekday(date) == (toordinal(date) + 6) % 7

\* The minute in time a zoned datetime lies in
Instant(date) ==
    (toordinal(date) * 24 + date.hour) * 60 + date.minute - date.utcoffset

\* a < b on zoned datetimes: by the point in time, not by the local fields
Earlier(a, b) ==
    \/ Instant(a) < Instant(b)
    \/ Instant(a) = Instant(b) /\ a.second < b.second

Digits == <<"0", "1", "2", "3", "4", "5", "6", "7", "8", "9">>

IsDigit(c) == \E k \in 1..10 : Digits[k] = c

DigitValue(c) == (CHOOSE k \in 1..10 : Digits[k] = c) - 1

\* The number a run of digits writes
RECURSIVE Number(_)
Number(s) ==
    IF s = <<>>
    THEN 0
    ELSE Number(SubSeq(s, 1, Len(s) - 1)) * 10 + DigitValue(s[Len(s)])

AllDigits(s) == \A i \in 1..Len(s) : IsDigit(s[i])

\* n written with at least `width` digits
RECURSIVE Padded(_, _)
Padded(n, width) ==
    IF n < 10 /\ width <= 1
    THEN <<Digits[n + 1]>>
    ELSE Padded(n \div 10, width - 1) \o <<Digits[(n % 10) + 1]>>

\* datetime.isoformat() of a zoned datetime: YYYY-MM-DDTHH:MM:SS+HH:MM
isoformat(date) ==
    LET off == IF date.utcoffset < 0 THEN -date.utcoffset ELSE date.utcoffset
    IN  Padded(date.year, 4) \o <<"-">> \o Padded(date.month, 2) \o <<"-">>
        \o Padded(date.day, 2) \o <<"T">> \o Padded(date.hour, 2) \o <<":">>
        \o Padded(date.minute, 2) \o <<":">> \o Padded(date.second, 2)
        \o <<IF date.utcoffset < 0 THEN "-" ELSE "+">>
        \o Padded(off \div 60, 2) \o <<":">> \o Padded(off % 60, 2)

\* datetime.fromisoformat(s) on text of the shape git's %aI writes; None
\* stands for ValueError
fromisoformat(s) ==
    IF /\ Len(s) = 25
       /\ AllDigits(SubSeq(s, 1, 4)) /\ s[5] = "-"
       /\ AllDigits(SubSeq(s, 6, 7)) /\ s[8] = "-"
       /\ AllDigits(SubSeq(s, 9, 10))
       /\ AllDigits(SubSeq(s, 12, 13)) /\ s[14] = ":"
       /\ AllDigits(SubSeq(s, 15, 16)) /\ s[17] = ":"
       /\ AllDigits(SubSeq(s, 18, 19)) /\ s[20] \in {"+", "-"}
       /\ AllDigits(SubSeq(s, 21, 22)) /\ s[23] = ":"
       /\ AllDigits(SubSeq(s, 24, 25))
    THEN LET y == Number(SubSeq(s, 1, 4))
             m == Number(SubSeq(s, 6, 7))
             d == Number(SubSeq(s, 9, 10))
             h == Number(SubSeq(s, 12, 13))
             mi == Number(SubSeq(s, 15, 16))
             sec == Number(SubSeq(s, 18, 19))
             off == Number(SubSeq(s, 21, 22)) * 60 + Number(SubSeq(s, 24, 25))
         IN  IF /\ y >= 1 /\ m \in 1..12 /\ d >= 1 /\ h < 24 /\ mi < 60
                /\ sec < 60 /\ Number(SubSeq(s, 24, 25)) < 60
                /\ d <= DaysInMonth(y, m)
             THEN Some([year |-> y, month |-> m, day |-> d, hour |-> h,
                        minute |-> mi, second |-> sec,
                        utcoffset |-> IF s[20] = "-" THEN -off ELSE off])
             ELSE None
    ELSE None

\* date.strftime(fmt) for the three grouping formats
strftime(date, fmt) ==
    CASE fmt = "%Y-%m-%d" ->
            Padded(date.year, 4) \o <<"-">> \o Padded(date.month, 2)
            \o <<"-">> \o Padded(date.day, 2)
      [] fmt = "%Y-%m" -> Padded(date.year, 4) \o <<"-">> \o Padded(date.month, 2)
      [] fmt = "%Y" -> Padded(date.year, 4)

\* The key of a commit's period; None: no branch of the if assigns it
PeriodKey_DayOnly(date, period) == Some(strftime(date, "%Y-%m-%d"))

PeriodKey(date, period) ==
    CASE period = "day" -> Some(strftime(date, "%Y-%m-%d"))
      [] period = "month" -> Some(strftime(date, "%Y-%m"))
      [] period = "year" -> Some(strftime(date, "%Y"))
      [] OTHER -> None

-----------------------------------------------------------------------------
(* float *)

\* A float is an IEEE 754 double: [sign, bits, e] stands for
\* sign * 1.b2 b3 ... b53 (in binary) * 2^e, and 0.0 has sign 0.
\* RoundBits rounds the binary numeral 1.b2 b3 ... of any length, times 2^e,
\* to 53 bits: to the nearest, and to the even one of two equally near
RoundBits(bits, e) ==
    LET padded == IF Len(bits) >= 54
                  THEN bits
                  ELSE bits \o [i \in 1..(54 - Len(bits)) |-> 0]
        kept == SubSeq(padded, 1, 53)
        up == /\ padded[54] = 1
              /\ \/ kept[53] = 1
                 \/ \E i \in 55..Len(padded) : padded[i] = 1
        zeros == {i \in 1..53 : kept[i] = 0}
    IN  IF ~up
        THEN [bits |-> kept, e |-> e]
        ELSE IF zeros = {}
        THEN [bits |-> [i \in 1..53 |-> IF i = 1 THEN 1 ELSE 0], e |-> e + 1]
        ELSE [bits |-> [i \in 1..53 |->
                          IF i < Max(zeros) THEN kept[i]
                          ELSE IF i = Max(zeros) THEN 1 ELSE 0],
              e |-> e]

\* a / b on integers, b > 0: the quotient, correctly rounded
TrueDiv(a, b) ==
    LET RECURSIVE Scaled(_, _, _)
        \* n / d * 2^e is the quotient, brought to d <= n < 2d
        Scaled(n, d, e) ==
            IF n < d THEN Scaled(2 * n, d, e - 1)
            ELSE IF n >= 2 * d THEN Scaled(n, 2 * d, e + 1)
            ELSE [n |-> n, d |-> d, e |-> e]
        RECURSIVE QuotientBits(_, _, _)
        \* k bits of r / d after the point, then a 1 if more would follow
        QuotientBits(r, d, k) ==
            IF k = 0
            THEN <<IF r = 0 THEN 0 ELSE 1>>
            ELSE LET bit == IF 2 * r >= d THEN 1 ELSE 0
                 IN  <<bit>> \o QuotientBits(2 * r - bit * d, d, k - 1)
        s == Scaled(IF a < 0 THEN -a ELSE a, b, 0)
        rounded == RoundBits(<<1>> \o QuotientBits(s.n - s.d, s.d, 53), s.e)
    IN  IF a = 0
        THEN [sign |-> 0, bits |-> <<>>, e |-> 0]
        ELSE [sign |-> IF a < 0 THEN -1 ELSE 1, bits |-> rounded.bits,
              e |-> rounded.e]

\* n * x for an integer n and a float x: the product, correctly rounded
FloatMul(n, x) ==
    LET count == IF n < 0 THEN -n ELSE n
        RECURSIVE Binary(_)
        Binary(k) == IF k = 0 THEN <<>> ELSE Binary(k \div 2) \o <<k % 2>>
        RECURSIVE Product(_, _, _, _)
        \* the numeral of k times the first i of the bits, plus carry
        Product(bits, k, i, carry) ==
            IF i = 0
            THEN Binary(carry)
            ELSE LET digit == bits[i] * k + carry
                 IN  IF digit % 2 = 1
                     THEN Product(bits, k, i - 1, digit \div 2) \o <<1>>
                     ELSE Product(bits, k, i - 1, digit \div 2) \o <<0>>
        product == Product(x.bits, count, 53, 0)
        rounded == RoundBits(product, x.e + Len(product) - 53)
    IN  IF n = 0 \/ x.sign = 0
        THEN [sign |-> 0, bits |-> <<>>, e |-> 0]
        ELSE [sign |-> IF n < 0 THEN -x.sign ELSE x.sign, bits |-> rounded.bits,
              e |-> rounded.e]

\* int(x) on a float of a small magnitude: truncation towards zero
FloatToInt(x) ==
    LET RECURSIVE BitsValue(_, _)
        BitsValue(acc, bits) ==
            IF bits = <<>> THEN acc ELSE BitsValue(2 * acc + Head(bits), Tail(bits))
    IN  IF x.sign = 0 \/ x.e < 0
        THEN 0
        ELSE x.sign * BitsValue(0, SubSeq(x.bits, 1, x.e + 1))

-----------------------------------------------------------------------------
(* get_git_logs *)

\* result.stdout.strip().split("\n") on the lines of the output
StripSplit(lines) ==
    LET full == {i \in 1..Len(lines) : strip(lines[i]) # <<>>}
    IN  IF full = {}
        THEN << <<>> >>
        ELSE LET lo == Min(full)
                 hi == Max(full)
             IN  [i \in 1..(hi - lo + 1) |->
                    LET l == lines[lo + i - 1]
                    IN  CASE lo = hi -> strip(l)
                          [] lo # hi /\ i = 1 -> lstrip(l)
                          [] lo # hi /\ i = hi - lo + 1 -> rstrip(l)
                          [] OTHER -> l]

\* commit.split("|", 3)
MessageFields_SplitAll(commit) == split(commit, "|", -1)

MessageFields(commit) == split(commit, "|", 3)

\* The body of the try in the loop: <<record>>, or None for the ValueError of
\* unpacking fewer than four fields or of fromisoformat.
ParseCommit(commit) ==
    LET parts == MessageFields(commit)
    IN  IF Len(parts) # 4
        THEN None
        ELSE LET date == fromisoformat(strip(parts[1]))
             IN  IF date = None
                 THEN None
                 ELSE Some([hash |-> parts[2], date |-> date[1],
                            author |-> parts[3], message |-> parts[4]])

\* Whether the loop skips the line before trying to parse it.
SkipsSilently_Never(commit) == FALSE

SkipsSilently(commit) == commit = <<>>

\* The loop over commits: the records appended and the warnings printed.
RECURSIVE ParseCommits(_)
ParseCommits(commits) ==
    IF commits = <<>>
    THEN [data |-> <<>>, printed |-> <<>>]
    ELSE LET rest == ParseCommits(Tail(commits))
             commit == Head(commits)
         IN  IF SkipsSilently(commit)
             THEN rest
             ELSE LET rec == ParseCommit(commit)
                  IN  IF rec = None
                      THEN [rest EXCEPT
                              !.printed = <<<<"warning_malformed", <<>>>>>> \o @]
                      ELSE [rest EXCEPT !.data = rec \o @]

\* if max_commits: commit_data = commit_data[:max_commits]
Truncate_OffByOne(data, max_commits) ==
    IF max_commits # None /\ max_commits[1] # 0
    THEN SliceTo(data, max_commits[1] + 1)
    ELSE data

Truncate(data, max_commits) ==
    IF max_commits # None /\ max_commits[1] # 0
    THEN SliceTo(data, max_commits[1])
    ELSE data

\* The grouping loop: None when `key` is unbound (UnboundLocalError).
RECURSIVE GroupInto(_, _, _)
GroupInto(grouped, data, period) ==
    IF data = <<>>
    THEN Some(grouped)
    ELSE LET key == PeriodKey(Head(data).date, period)
         IN  IF key = None
             THEN None
             ELSE GroupInto(DictInc(grouped, key[1]), Tail(data), period)

Group_FromAll(parsed_data, data, period) == GroupInto(<<>>, parsed_data, period)

Group(parsed_data, data, period) == GroupInto(<<>>, data, period)

\* What get_git_logs does with the standard output of a successful git log:
\* what it prints and the pair it returns.
ParseLog(lines, period, max_commits) ==
    LET commits == StripSplit(lines)
    IN  IF commits[1] = <<>>
        THEN [printed |-> <<<<"no_commits_for_period", <<>>>>>>,
              grouped |-> <<>>, data |-> <<>>]
        ELSE LET p == ParseCommits(commits)
                 data == Truncate(p.data, max_commits)
                 grouped == Group(p.data, data, period)
             IN  IF grouped = None
                 THEN [printed |-> p.printed \o <<<<"unexpected_error", <<>>>>>>,
                       grouped |-> <<>>, data |-> <<>>]
                 ELSE [printed |-> p.printed, grouped |-> grouped[1],
                       data |-> data]

-----------------------------------------------------------------------------
(* get_commit_details *)

UpperCase ==
    <<"A", "B", "C", "D", "E", "F", "G", "H", "I", "J", "K", "L", "M",
      "N", "O", "P", "Q", "R", "S", "T", "U", "V", "W", "X", "Y", "Z">>

LowerCase ==
    <<"a", "b", "c", "d", "e", "f", "g", "h", "i", "j", "k", "l", "m",
      "n", "o", "p", "q", "r", "s", "t", "u", "v", "w", "x", "y", "z">>

\* str.lower()
lower(s) ==
    [i \in 1..Len(s) |->
        IF \E k \in 1..Len(UpperCase) : UpperCase[k] = s[i]
        THEN LowerCase[CHOOSE k \in 1..Len(UpperCase) : UpperCase[k] = s[i]]
        ELSE s[i]]

\* str.startswith(tuple of prefixes)
startswith(s, prefixes) ==
    \E p \in prefixes : Len(s) >= Len(p) /\ SubSeq(s, 1, Len(p)) = p

Fix == <<"f", "i", "x">>
Bug == <<"b", "u", "g">>
Feat == <<"f", "e", "a", "t">>
Add == <<"a", "d", "d">>
Doc == <<"d", "o", "c">>
Readme == <<"r", "e", "a", "d", "m", "e">>
Refactor == <<"r", "e", "f", "a", "c", "t", "o", "r">>
Style == <<"s", "t", "y", "l", "e">>
Clean == <<"c", "l", "e", "a", "n">>
Test == <<"t", "e", "s", "t">>

\* message = commit["message"].lower()
Normalised_CaseSensitive(message) == message

Normalised(message) == lower(message)

\* The if/elif chain on the message
CommitType(text) ==
    LET message == Normalised(text)
    IN  IF startswith(message, {Fix, Bug}) THEN "fixes"
        ELSE IF startswith(message, {Feat, Add}) THEN "features"
        ELSE IF startswith(message, {Doc, Readme}) THEN "documentation"
        ELSE IF startswith(message, {Refactor, Style, Clean}) THEN "refactoring"
        ELSE IF startswith(message, {Test}) THEN "tests"
        ELSE "other"

\* The loop over commit_data: the four defaultdict(int) it fills
RECURSIVE Tally(_, _)
Tally(acc, data) ==
    IF data = <<>>
    THEN acc
    ELSE LET commit == Head(data)
         IN  Tally([authors |-> DictInc(acc.authors, commit.author),
                    hours |-> DictInc(acc.hours, commit.date.hour),
                    weekdays |-> DictInc(acc.weekdays, weekday(commit.date)),
                    commit_types |->
                        DictInc(acc.commit_types, CommitType(commit.message))],
                   Tail(data))

\* As if the last of the items with the largest value were taken
MaxByValue_LastWins(best, items) ==
    LET all == <<best>> \o items
        top == Max({all[i][2] : i \in 1..Len(all)})
    IN  all[Max({i \in 1..Len(all) : all[i][2] = top})]

\* max(items, key=lambda x: x[1]): the first item with the largest value
RECURSIVE MaxByValue(_, _)
MaxByValue(best, items) ==
    IF items = <<>>
    THEN best
    ELSE MaxByValue(IF Head(items)[2] > best[2] THEN Head(items) ELSE best,
                    Tail(items))

\* min(c["date"] for c in commit_data): the first of the earliest datetimes
RECURSIVE MinDate(_, _)
MinDate(best, data) ==
    IF data = <<>>
    THEN best
    ELSE MinDate(IF Earlier(Head(data).date, best)
                 THEN Head(data).date
                 ELSE best,
                 Tail(data))

\* max(c["date"] for c in commit_data): the first of the latest datetimes
RECURSIVE MaxDate(_, _)
MaxDate(best, data) ==
    IF data = <<>>
    THEN best
    ELSE MaxDate(IF Earlier(best, Head(data).date)
                 THEN Head(data).date
                 ELSE best,
                 Tail(data))

first_commit_OfFirstRecord(data) == data[1].date

first_commit(data) == MinDate(data[1].date, Tail(data))

last_commit(data) == MaxDate(data[1].date, Tail(data))

\* sorted(items, key=lambda x: x[1], reverse=True): stable, largest first
RECURSIVE SortedByValueDesc(_)
SortedByValueDesc(items) ==
    IF items = <<>>
    THEN <<>>
    ELSE LET top == Max({items[i][2] : i \in 1..Len(items)})
             at == Min({i \in 1..Len(items) : items[i][2] = top})
         IN  <<items[at]>>
             \o SortedByValueDesc(SubSeq(items, 1, at - 1)
                                  \o SubSeq(items, at + 1, Len(items)))

\* sorted(items): by key, the keys being distinct integers
RECURSIVE SortedByKey(_)
SortedByKey(items) ==
    IF items = <<>>
    THEN <<>>
    ELSE LET low == Min({items[i][1] : i \in 1..Len(items)})
             at == CHOOSE i \in 1..Len(items) : items[i][1] = low
         IN  <<items[at]>>
             \o SortedByKey(SubSeq(items, 1, at - 1)
                            \o SubSeq(items, at + 1, Len(items)))

weekday_names ==
    <<"Monday", "Tuesday", "Wednesday", "Thursday", "Friday", "Saturday",
      "Sunday">>

\* get_commit_details(commit_data): <<the dict returned>>, or None for the
\* ValueError of max() on an empty sequence
get_commit_details(data) ==
    LET t == Tally([authors |-> <<>>, hours |-> <<>>, weekdays |-> <<>>,
                    commit_types |-> <<>>], data)
    IN  IF t.hours = <<>>
        THEN None
        ELSE LET peak_hour == MaxByValue(Head(t.hours), Tail(t.hours))
                 peak_weekday == MaxByValue(Head(t.weekdays), Tail(t.weekdays))
                 by_day == SortedByKey(t.weekdays)
             IN  Some([first_commit |-> first_commit(data),
                       last_commit |-> last_commit(data),
                       total_commits |-> Len(data),
                       peak_hour |-> peak_hour,
                       peak_weekday |->
                           <<weekday_names[peak_weekday[1] + 1], peak_weekday[2]>>,
                       authors |-> SortedByValueDesc(t.authors),
                       commit_types |-> t.commit_types,
                       hours |-> SortedByKey(t.hours),
                       weekdays |->
                           [i \in 1..Len(by_day) |->
                               <<weekday_names[by_day[i][1] + 1], by_day[i][2]>>]])

-----------------------------------------------------------------------------
(* calculate_streaks; a calendar date is its ordinal *)

RECURSIVE SortedSet(_)
SortedSet(S) ==
    IF S = {} THEN <<>> ELSE <<Min(S)>> \o SortedSet(S \ {Min(S)})

ScanRuns_LoopSkipped(st, dates, i) == st

\* As if a run as long as the longest so far replaced it
RECURSIVE ScanRuns_LaterRunWins(_, _, _)
ScanRuns_LaterRunWins(st, dates, i) ==
    IF i > Len(dates)
    THEN st
    ELSE IF dates[i] - dates[i - 1] = 1
         THEN ScanRuns_LaterRunWins([st EXCEPT !.current_run = @ + 1], dates, i + 1)
         ELSE LET kept == IF st.current_run >= st.longest_streak
                          THEN [st EXCEPT !.longest_streak = st.current_run,
                                          !.longest_start = st.current_start,
                                          !.longest_end = dates[i - 1]]
                          ELSE st
              IN  ScanRuns_LaterRunWins([kept EXCEPT !.current_run = 1,
                                                     !.current_start = dates[i]],
                                        dates, i + 1)

\* The loop over commit_dates[1:], lines 205-214
RECURSIVE ScanRuns(_, _, _)
ScanRuns(st, dates, i) ==
    IF i > Len(dates)
    THEN st
    ELSE IF dates[i] - dates[i - 1] = 1
         THEN ScanRuns([st EXCEPT !.current_run = @ + 1], dates, i + 1)
         ELSE LET kept == IF st.current_run > st.longest_streak
                          THEN [st EXCEPT !.longest_streak = st.current_run,
                                          !.longest_start = st.current_start,
                                          !.longest_end = dates[i - 1]]
                          ELSE st
              IN  ScanRuns([kept EXCEPT !.current_run = 1,
                                        !.current_start = dates[i]],
                           dates, i + 1)

\* As if every commit date up to check_date were counted, gaps or not
CountBack_AcrossGaps(check_date, date_set) ==
    IF check_date \in date_set
    THEN Cardinality({d \in date_set : d <= check_date})
    ELSE 0

CountBack_OneDay(check_date, date_set) ==
    IF check_date \in date_set THEN 1 ELSE 0

\* while check_date in date_set: current_streak += 1; check_date -= 1 day
RECURSIVE CountBack(_, _)
CountBack(check_date, date_set) ==
    IF check_date \in date_set
    THEN 1 + CountBack(check_date - 1, date_set)
    ELSE 0

calculate_streaks(data, today) ==
    IF data = <<>>
    THEN [current_streak |-> 0, longest_streak |-> 0,
          longest_streak_start |-> None, longest_streak_end |-> None]
    ELSE LET date_set == {toordinal(data[i].date) : i \in 1..Len(data)}
             commit_dates == SortedSet(date_set)
             scanned == ScanRuns([longest_streak |-> 1,
                                  longest_start |-> commit_dates[1],
                                  longest_end |-> commit_dates[1],
                                  current_run |-> 1,
                                  current_start |-> commit_dates[1]],
                                 commit_dates, 2)
             final == IF scanned.current_run > scanned.longest_streak
                      THEN [scanned EXCEPT
                              !.longest_streak = scanned.current_run,
                              !.longest_start = scanned.current_start,
                              !.longest_end = commit_dates[Len(commit_dates)]]
                      ELSE scanned
             from_today == CountBack(today, date_set)
         IN  [current_streak |-> IF from_today = 0
                                 THEN CountBack(today - 1, date_set)
                                 ELSE from_today,
              longest_streak |-> final.longest_streak,
              longest_streak_start |-> Some(final.longest_start),
              longest_streak_end |-> Some(final.longest_end)]

-----------------------------------------------------------------------------
(* get_file_churn *)

\* The loop over the lines: file_counts
RECURSIVE CountFiles(_, _)
CountFiles(counts, lines) ==
    IF lines = <<>>
    THEN counts
    ELSE LET path == strip(Head(lines))
         IN  CountFiles(IF path # <<>> THEN DictInc(counts, path) ELSE counts,
                        Tail(lines))

FileChurn_Unsorted(lines, top_n) ==
    SliceTo(CountFiles(<<>>, StripSplit(lines)), top_n)

\* What get_file_churn returns for the standard output of a successful run
FileChurn(lines, top_n) ==
    SliceTo(SortedByValueDesc(CountFiles(<<>>, StripSplit(lines))), top_n)

-----------------------------------------------------------------------------
(* get_velocity *)

\* int(s): None stands for ValueError
int(s) ==
    LET t == strip(s)
        signed == t # <<>> /\ Head(t) \in {"+", "-"}
        digits == IF signed THEN Tail(t) ELSE t
    IN  IF digits # <<>> /\ AllDigits(digits)
        THEN Some(IF signed /\ Head(t) = "-" THEN -Number(digits) ELSE Number(digits))
        ELSE None

\* velocity[key]["added"] += added; velocity[key]["removed"] += removed
VelocityAdd(velocity, key, added, removed) ==
    IF \E i \in 1..Len(velocity) : velocity[i][1] = key
    THEN [i \in 1..Len(velocity) |->
            IF velocity[i][1] = key
            THEN <<key, [added |-> velocity[i][2].added + added,
                         removed |-> velocity[i][2].removed + removed]>>
            ELSE velocity[i]]
    ELSE Append(velocity, <<key, [added |-> added, removed |-> removed]>>)

\* The test that takes a line for a date line
IsDateLine(text) == Len(text) > 10 /\ text[5] = "-"

\* The loop over the lines; current_date_key is None or <<key>>
RECURSIVE VelocityLoop(_, _, _, _)
VelocityLoop(velocity, current_date_key, lines, period) ==
    IF lines = <<>>
    THEN velocity
    ELSE LET text == strip(Head(lines))
             rest == Tail(lines)
         IN  IF text = <<>>
             THEN VelocityLoop(velocity, current_date_key, rest, period)
             ELSE IF IsDateLine(text)
             THEN LET date == fromisoformat(text)
                      key == IF date = None THEN None ELSE PeriodKey(date[1], period)
                  IN  VelocityLoop(velocity,
                                   IF key = None THEN current_date_key ELSE key,
                                   rest, period)
             ELSE IF current_date_key # None /\ current_date_key[1] # <<>>
                     /\ \E i \in 1..Len(text) : text[i] = "\t"
             THEN LET parts == split(text, "\t", -1)
                      added == IF parts[1] # <<"-">> THEN int(parts[1]) ELSE Some(0)
                      removed == IF Len(parts) >= 2 /\ parts[2] # <<"-">>
                                 THEN int(parts[2])
                                 ELSE Some(0)
                  IN  IF Len(parts) >= 3 /\ added # None /\ removed # None
                      THEN VelocityLoop(VelocityAdd(velocity, current_date_key[1],
                                                    added[1], removed[1]),
                                        current_date_key, rest, period)
                      ELSE VelocityLoop(velocity, current_date_key, rest, period)
             ELSE VelocityLoop(velocity, current_date_key, rest, period)

\* As if current_date_key began as a key instead of None
Velocity_Undated(lines, period) ==
    VelocityLoop(<<>>, Some(<<"0">>), StripSplit(lines), period)

\* What get_velocity returns for the standard output of a successful run
Velocity(lines, period) == VelocityLoop(<<>>, None, StripSplit(lines), period)

-----------------------------------------------------------------------------
(* The environment: external commands and what they answer *)

\* subprocess.run(..., check=True): the command ran and exited 0, exited
\* non-zero (CalledProcessError), or could not be started (OSError)
RunOutcomes == {"ok", "nonzero", "oserror"}

Stderrs == {"fatal: not a git repository", "fatal: bad revision"}

Ran(cmd, outcome, stdout, stderr) ==
    [cmd |-> cmd, outcome |-> outcome, stdout |-> stdout, stderr |-> stderr]

\* A failed run of cmd, for every way it can fail
FailedRuns(cmd) ==
    {Ran(cmd, "nonzero", <<>>, e) : e \in Stderrs}
    \cup {Ran(cmd, "oserror", <<>>, "")}

Row(ts, hash, author, message) ==
    ts \o <<"|">> \o hash \o <<"|">> \o author \o <<"|">> \o message

\* The timestamps of the commits in the logs
Stamp1 == isoformat(Datetime(2024, 6, 10, 14, 30, 0))
Stamp2 == isoformat(Datetime(2024, 6, 10, 15, 0, 120))
Stamp3 == isoformat(Datetime(2024, 7, 10, 9, 0, -300))

\* Lines a `git log --format=%aI|%h|%an|%s` output is made of: well formed
\* (the message empty, with the delimiter, with white space around), with a
\* bad timestamp, with too few fields, empty and blank
LogLines ==
    {Row(Stamp1, <<"h">>, <<"a">>, <<"m">>),
     Row(Stamp2, <<"h">>, <<"b">>, <<"m", "|", " ">>),
     Row(<<" ">> \o Stamp3, <<"h">>, <<"a">>, <<>>),
     Row(<<"x">>, <<"h">>, <<"a">>, <<"m">>),
     Stamp1 \o <<"|", "h", "|", "a">>,
     <<" ">>,
     <<>>}

LogOutputs == BoundedSeq(LogLines, MaxLines)

LogRuns ==
    {Ran("log", "ok", o, "") : o \in LogOutputs} \cup FailedRuns("log")

\* Lines a `git log --name-only --format=` output is made of
ChurnLines == {<<"a">>, <<"b">>, <<" ", "c", " ">>, <<>>}

ChurnRuns ==
    {Ran("log --name-only", "ok", o, "") : o \in BoundedSeq(ChurnLines, MaxChurnLines)}
    \cup FailedRuns("log --name-only")

Stat(added, removed, path) == added \o <<"\t">> \o removed \o <<"\t">> \o path

\* Lines a `git log --numstat --format=%aI` output is made of: date lines,
\* stat lines of text and binary files and of a path that begins with "-"
VelocityLines ==
    {Stamp1,
     Stamp3,
     Stat(<<"1", "0">>, <<"5">>, <<"f">>),
     Stat(<<"3">>, <<"1">>, <<"g">>),
     Stat(<<"-">>, <<"-">>, <<"b">>),
     Stat(<<"1">>, <<"2">>, <<"-", "n", "o", "-", "d", "a", "t", "e">>),
     <<>>}

VelocityRuns ==
    {Ran("log --numstat", "ok", o, "") :
        o \in BoundedSeq(VelocityLines, MaxVelocityLines)}
    \cup FailedRuns("log --numstat")

\* What the commands answer when main runs them: fewer answers, to keep the
\* runs of main, which vary in eleven arguments, countable
MainLogLines ==
    {Row(Stamp1, <<"h">>, <<"a">>, <<"m">>),
     Row(Stamp3, <<"h">>, <<"b">>, <<"m", "|", "m">>),
     Row(<<"x">>, <<"h">>, <<"a">>, <<"m">>)}

MainLogRuns ==
    {Ran("log", "ok", o, "") : o \in BoundedSeq(MainLogLines, MaxMainLines)}
    \cup FailedRuns("log")

MainChurnRuns ==
    {Ran("log --name-only", "ok", o, "") : o \in {<<>>, <<<<"a">>, <<"b">>, <<"a">>>>}}
    \cup FailedRuns("log --name-only")

MainVelocityRuns ==
    {Ran("log --numstat", "ok", o, "") :
        o \in {<<>>, <<Stamp1, Stat(<<"1", "0">>, <<"5">>, <<"f">>)>>}}
    \cup FailedRuns("log --numstat")

\* datetime.now().date(), as an ordinal
Todays ==
    {toordinal(Datetime(2024, 6, 10, 0, 0, 0)),
     toordinal(Datetime(2024, 6, 11, 0, 0, 0)),
     toordinal(Datetime(2024, 7, 20, 0, 0, 0))}

Periods == {"day", "month", "year"}

MaxCommitsValues == {None} \cup {Some(n) : n \in 0..MaxCap}

DefaultArgs ==
    [period |-> "day", max_commits |-> None, top_n |-> 15, output |-> "text",
     version |-> FALSE, help |-> FALSE, notify |-> FALSE, insights |-> FALSE,
     churn |-> FALSE, velocity |-> FALSE, heatmap |-> FALSE]

\* How a test or another program calls get_git_logs
GetGitLogsArgs ==
    {[DefaultArgs EXCEPT !.period = p, !.max_commits = m] :
        p \in Periods, m \in MaxCommitsValues}
    \cup {[DefaultArgs EXCEPT !.period = "week"]}

GetFileChurnArgs == {[DefaultArgs EXCEPT !.top_n = n] : n \in 0..MaxTopN}

GetVelocityArgs == {[DefaultArgs EXCEPT !.period = p] : p \in Periods \cup {"week"}}

\* What argparse makes of a command line
MainArgs ==
    [period : {"day", "month"}, max_commits : {None, Some(1)}, top_n : {15},
     output : {"text", "json", "csv", "svg"}, version : BOOLEAN, help : BOOLEAN,
     notify : BOOLEAN, insights : BOOLEAN, churn : BOOLEAN, velocity : BOOLEAN,
     heatmap : BOOLEAN]

ArgsOf(fn) ==
    CASE fn = "main" -> MainArgs
      [] fn = "get_git_logs" -> GetGitLogsArgs
      [] fn = "get_file_churn" -> GetFileChurnArgs
      [] fn = "get_velocity" -> GetVelocityArgs

Commit(date, author, message) ==
    [hash |-> <<"h">>, date |-> date, author |-> author, message |-> message]

\* Commit records a caller hands to the aggregation functions: messages of
\* every class in both cases, near misses, and datetimes whose order in time
\* differs from the order of their local fields
CommitPool ==
    {Commit(Datetime(2024, 6, 10, 14, 0, 0), <<"Alice">>, <<"F", "i", "x", " ", "b", "u", "g">>),
     Commit(Datetime(2024, 6, 10, 15, 0, 120), <<"Bob">>, <<"B", "U", "G">>),
     Commit(Datetime(2024, 3, 1, 0, 0, 0), <<"Alice">>, <<"f", "e", "a", "t", ":">>),
     Commit(Datetime(2024, 2, 29, 23, 0, 0), <<"Bob">>, <<"A", "d", "d">>),
     Commit(Datetime(2024, 3, 1, 1, 0, 120), <<"Alice">>, <<"d", "o", "c", "s", ":">>),
     Commit(Datetime(2023, 12, 31, 23, 0, 0), <<"Bob">>, <<"R", "E", "A", "D", "M", "E">>),
     Commit(Datetime(2024, 1, 1, 0, 0, 0), <<"Alice">>, <<"r", "e", "f", "a", "c", "t", "o", "r">>),
     Commit(Datetime(2024, 6, 10, 14, 0, 0), <<"Carol">>, <<"S", "t", "y", "l", "e">>),
     Commit(Datetime(2024, 6, 11, 9, 0, 0), <<"Alice">>, <<"c", "l", "e", "a", "n", "u", "p">>),
     Commit(Datetime(2024, 6, 12, 14, 0, 0), <<"Bob">>, <<"t", "e", "s", "t", "s">>),
     Commit(Datetime(2024, 6, 10, 9, 0, 0), <<"Alice">>, <<"b", "u", "m", "p">>),
     Commit(Datetime(2024, 6, 11, 14, 0, 0), <<"Bob">>, <<"a", " ", "f", "i", "x">>),
     Commit(Datetime(2024, 6, 12, 9, 0, 0), <<"Carol">>, <<>>),
     Commit(Datetime(2024, 6, 10, 14, 0, 0), <<"Alice">>, <<"f", "i">>)}

\* Commits for calculate_streaks: days in a row, a month's end in a leap
\* year, two commits on one day, and a day that is another day in UTC
StreakPool ==
    {Commit(Datetime(2024, 2, 29, 12, 0, 0), <<"Alice">>, <<"m">>),
     Commit(Datetime(2024, 3, 1, 12, 0, 0), <<"Alice">>, <<"m">>),
     Commit(Datetime(2024, 6, 8, 9, 0, 0), <<"Bob">>, <<"m">>),
     Commit(Datetime(2024, 6, 9, 23, 30, -300), <<"Bob">>, <<"m">>),
     Commit(Datetime(2024, 6, 10, 9, 0, 0), <<"Alice">>, <<"m">>),
     Commit(Datetime(2024, 6, 10, 18, 0, 120), <<"Bob">>, <<"m">>),
     Commit(Datetime(2024, 6, 11, 0, 0, 0), <<"Alice">>, <<"m">>)}

\* Data a caller hands to the rendering routines: dicts and lists of up to
\* MaxRenderItems items, with counts as the aggregations make them (1 or more)
RenderKeys == {<<"a">>, <<"b">>, <<"c">>}

Distinct(items) ==
    \A i \in 1..Len(items) : \A j \in 1..Len(items) :
        items[i][1] = items[j][1] => i = j

CountMaps ==
    {d \in BoundedSeq(RenderKeys \X (1..MaxCount), MaxRenderItems) : Distinct(d)}

VelocityMaps ==
    {d \in BoundedSeq(RenderKeys \X [added : {0, MaxCount}, removed : {0, 1}],
                      MaxRenderItems) : Distinct(d)}

\* Counts per date for render_bars: small ones, and one at which the
\* quotient max_width / max_commits is not a float times which max_commits
\* gives max_width
BarMaps ==
    {d \in BoundedSeq(RenderKeys \X ((1..MaxCount) \cup {MaxBarCount}),
                      MaxRenderItems) : Distinct(d)}

\* max_width as a caller gives it
MaxWidths == {None, Some(0), Some(15), Some(40)}

\* os.get_terminal_size().columns; None: it raises OSError (no terminal)
TerminalColumns == {None, Some(10), Some(20), Some(35)}

\* Lists of integers for render_boxplot: equal and distinct values, a value
\* far above and one far below the others
CountLists == BoundedSeq({-40, 1, 2, 12}, MaxBoxValues)

\* Commits for render_contribution_heatmap when today is 2024-06-10 or later:
\* of today, of the day before by local date, of a later day, of the first
\* day of the 365 and of the day before it, and of a day in between
HeatmapPool ==
    {Commit(Datetime(2024, 6, 10, 9, 0, 0), <<"Alice">>, <<"m">>),
     Commit(Datetime(2024, 6, 9, 23, 30, -300), <<"Bob">>, <<"m">>),
     Commit(Datetime(2024, 6, 11, 0, 0, 0), <<"Alice">>, <<"m">>),
     Commit(Datetime(2023, 6, 12, 9, 0, 0), <<"Bob">>, <<"m">>),
     Commit(Datetime(2023, 6, 11, 9, 0, 0), <<"Bob">>, <<"m">>),
     Commit(Datetime(2024, 3, 1, 12, 0, 0), <<"Alice">>, <<"m">>)}

\* Numbers of commits of one day: the ends of the ranges 1-3, 4-7, 8-15, and
\* the greatest number
DayCounts == {1, 3, 4, 7, 8, 15, MaxDayCommits}

\* No commits, or some number of commits of one day and at most one more
HeatmapData ==
    {<<>>}
    \cup {[i \in 1..k |-> c] \o d :
            c \in HeatmapPool, k \in DayCounts, d \in BoundedSeq(HeatmapPool, 1)}

Renderers ==
    {"render_bars", "render_activity_chart", "render_file_churn",
     "render_velocity", "render_boxplot", "render_violinplot",
     "render_contribution_heatmap"}

RenderArgs(fn) ==
    CASE fn = "render_velocity" -> {[data |-> d] : d \in VelocityMaps}
      [] fn = "render_boxplot" -> {[data |-> d] : d \in CountLists}
      [] fn = "render_contribution_heatmap" -> {[data |-> d] : d \in HeatmapData}
      [] fn = "render_bars" ->
            {[data |-> d, max_width |-> w] : d \in BarMaps, w \in MaxWidths}
      [] OTHER -> {[data |-> d] : d \in CountMaps}

-----------------------------------------------------------------------------
(* The program *)

Said(kind, payload) == <<kind, payload>>

\* Where a function called from `entry` returns to
ReturnTo(fn) ==
    IF entry = "main"
    THEN CASE fn = "get_git_logs" -> "fetched"
           [] fn = "get_file_churn" /\ args.velocity -> "get_velocity"
           [] OTHER -> "done"
    ELSE "done"

\* __init__.py, line 3
__version__ == <<"0", ".", "2", ".", "0">>

\* main, lines 1002-1018: the flags that end it, else the call of get_git_logs
Main ==
    /\ pc = "main"
    /\ IF args.version
       THEN /\ out' = Append(out, Said("version", __version__))
            /\ pc' = "done"
       ELSE IF args.help
       THEN /\ out' = Append(out, Said("help", <<>>))
            /\ pc' = "done"
       ELSE /\ out' = out
            /\ pc' = "get_git_logs"
    /\ UNCHANGED <<entry, clock, terminal, args, calls, files, notes, grouped_commits,
                   commit_data, churn_data, velocity_data, stats, line, parsed>>

\* get_git_logs, lines 74-81: where control goes after the repository check
AfterRepoCheck_FallThrough(outcome) ==
    CASE outcome = "oserror" -> "raise"
      [] OTHER -> "git_log"

AfterRepoCheck(outcome) ==
    CASE outcome = "ok" -> "git_log"
      [] outcome = "nonzero" -> "return"
      [] OTHER -> "raise"

\* get_git_logs up to the end of its first try statement
GetGitLogsCheck ==
    /\ pc = "get_git_logs"
    /\ \E run \in {Ran("rev-parse", "ok", <<>>, "")} \cup FailedRuns("rev-parse") :
         LET to == AfterRepoCheck(run.outcome)
         IN  /\ calls' = Append(calls, run)
             /\ out' = IF run.outcome = "nonzero"
                       THEN Append(out, Said("not_a_git_repository", <<>>))
                       ELSE out
             /\ pc' = CASE to = "git_log" -> "git_log"
                        [] to = "return" -> ReturnTo("get_git_logs")
                        [] OTHER -> "raised"
    /\ UNCHANGED <<entry, clock, terminal, args, files, notes, grouped_commits, commit_data,
                   churn_data, velocity_data, stats, line, parsed>>

\* get_git_logs, lines 130-136: what the handlers of the second try print
LogFailureReport_Silent(run) == <<>>

LogFailureReport(run) ==
    IF run.outcome = "nonzero"
    THEN <<Said("error_executing_git", <<>>), Said("error_details", <<run.stderr>>)>>
    ELSE <<Said("unexpected_error", <<>>)>>

\* get_git_logs from its second try statement to its return
GetGitLogsRun ==
    /\ pc = "git_log"
    /\ \E run \in IF entry = "main" THEN MainLogRuns ELSE LogRuns :
         /\ calls' = Append(calls, run)
         /\ IF run.outcome = "ok"
            THEN LET r == ParseLog(run.stdout, args.period, args.max_commits)
                 IN  /\ out' = out \o r.printed
                     /\ grouped_commits' = r.grouped
                     /\ commit_data' = r.data
            ELSE /\ out' = out \o LogFailureReport(run)
                 /\ grouped_commits' = <<>>
                 /\ commit_data' = <<>>
    /\ pc' = ReturnTo("get_git_logs")
    /\ UNCHANGED <<entry, clock, terminal, args, files, notes, churn_data, velocity_data,
                   stats, line, parsed>>

\* main, lines 1020-1024: whether it stops after the fetch
StopsAfterFetch_Never(data) == FALSE

StopsAfterFetch(data) == data = <<>>

milestones == <<100, 500, 1000, 5000, 10000>>

\* main, lines 1027-1043: the calls of send_notification
Notifications(data, today) ==
    LET total_commits == Len(data)
        reached == [i \in 1..Len(milestones) |->
                      IF total_commits >= milestones[i]
                         /\ total_commits < milestones[i] + 10
                      THEN <<<<"milestone", milestones[i]>>>>
                      ELSE <<>>]
        streak == calculate_streaks(data, today).current_streak
    IN  reached[1] \o reached[2] \o reached[3] \o reached[4] \o reached[5]
        \o (IF streak >= 30 THEN <<<<"streak", streak>>>> ELSE <<>>)

\* main, lines 1046-1057: the document json.dumps writes
JsonDocument(grouped, data) ==
    [grouped_commits |-> grouped,
     commit_data |-> [i \in 1..Len(data) |->
                        [hash |-> data[i].hash,
                         date |-> isoformat(data[i].date),
                         author |-> data[i].author,
                         message |-> data[i].message]]]

\* main, lines 1060-1068: the rows csv.writer writes
CsvRows(data) ==
    <<Said("csv_row", <<"Date", "Hash", "Author", "Message">>)>>
    \o [i \in 1..Len(data) |->
          Said("csv_row", <<isoformat(data[i].date), data[i].hash,
                            data[i].author, data[i].message>>)]

\* s < t on two str made of "-", digits and the letters a to c, which is the
\* order of their code points
StrLess(s, t) ==
    LET chars == <<"-", "0", "1", "2", "3", "4", "5", "6", "7", "8", "9",
                   "a", "b", "c">>
        Rank(c) == CHOOSE i \in 1..Len(chars) : chars[i] = c
    IN  \E i \in 1..(Min({Len(s), Len(t)}) + 1) :
           /\ \A j \in 1..(i - 1) : s[j] = t[j]
           /\ i <= Len(t)
           /\ (i <= Len(s) => Rank(s[i]) < Rank(t[i]))

\* sorted(keys, reverse=True) on distinct str
RECURSIVE SortedDesc(_)
SortedDesc(keys) ==
    IF keys = {}
    THEN <<>>
    ELSE LET top == CHOOSE k \in keys : \A o \in keys \ {k} : StrLess(o, k)
         IN  <<top>> \o SortedDesc(keys \ {top})

render_bars_NoNotice(commits, max_width, columns) ==
    IF commits = <<>>
    THEN <<>>
    ELSE <<Said("activity_summary", commits)>>

\* render_bars(commits, max_width=max_width) where os.get_terminal_size()
\* gives `columns`, or raises OSError (None): the notice, or the summary
\* with a row for each date; bar is the length of bar_char * bar_width
render_bars(commits, max_width, columns) ==
    IF commits = <<>>
    THEN <<Said("no_commits", <<>>)>>
    ELSE LET RECURSIVE Sum(_)
             Sum(d) == IF d = <<>> THEN 0 ELSE Head(d)[2] + Sum(Tail(d))
             max_commits == Max({commits[i][2] : i \in 1..Len(commits)})
             width == IF max_width = None \/ max_width = Some(0)
                      THEN IF columns = None THEN 60 ELSE columns[1] - 20
                      ELSE max_width[1]
             bar_unit == TrueDiv(width, max_commits)
             dates == SortedDesc(DictKeys(commits))
         IN  <<Said("activity_summary",
                    [total_commits |-> Sum(commits),
                     unique_days |-> Len(commits),
                     bars |->
                        [i \in 1..Len(dates) |->
                            LET count == DictGet(commits, dates[i])
                                bar_width == FloatToInt(FloatMul(count, bar_unit))
                            IN  [date |-> dates[i], count |-> count,
                                 bar_width |-> bar_width,
                                 bar |-> Max({bar_width, 0})]]])>>

\* intensity_chars, by the names of its five glyphs
intensity_chars == <<"dot", "light shade", "medium shade", "dark shade", "full block">>

get_intensity(count) ==
    IF count = 0 THEN intensity_chars[1]
    ELSE IF count <= 3 THEN intensity_chars[2]
    ELSE IF count <= 7 THEN intensity_chars[3]
    ELSE IF count <= 15 THEN intensity_chars[4]
    ELSE intensity_chars[5]

get_color(count) ==
    IF count = 0 THEN "gray"
    ELSE IF count <= 3 THEN "green"
    ELSE IF count <= 7 THEN "yellow"
    ELSE IF count <= 15 THEN "red"
    ELSE "bright red"

\* The loop that fills daily_commits; dates are ordinals, which tell days
\* apart as their isoformat() keys do
RECURSIVE DailyCommits(_, _, _, _)
DailyCommits(daily_commits, data, start_date, today) ==
    IF data = <<>>
    THEN daily_commits
    ELSE LET commit_date == toordinal(Head(data).date)
         IN  DailyCommits(IF start_date <= commit_date /\ commit_date <= today
                          THEN DictInc(daily_commits, commit_date)
                          ELSE daily_commits,
                          Tail(data), start_date, today)

\* The while loop that lays the dates out in weeks, and the any(week) after
\* it; one step here is the loop's run through the days of one week, from
\* current_date on its day_of_week to that week's Sunday or to today
RECURSIVE WeeksLoop(_, _, _, _)
WeeksLoop(weeks, current_date, day_of_week, today) ==
    IF current_date > today
    THEN weeks
    ELSE LET week == [i \in 1..7 |->
                        IF i - 1 >= day_of_week
                           /\ current_date + (i - 1 - day_of_week) <= today
                        THEN Some(current_date + (i - 1 - day_of_week))
                        ELSE None]
         IN  WeeksLoop(Append(weeks, week), current_date + (7 - day_of_week), 0,
                       today)

\* The seven rows printed: one cell for each of weeks[:52]
HeatmapRows(daily_commits, weeks) ==
    [day_idx \in 1..7 |->
        [w \in 1..Min({Len(weeks), 52}) |->
            IF weeks[w][day_idx] # None
            THEN LET count == IF weeks[w][day_idx][1] \in DictKeys(daily_commits)
                              THEN DictGet(daily_commits, weeks[w][day_idx][1])
                              ELSE 0
                 IN  [color |-> get_color(count), char |-> get_intensity(count)]
            ELSE [color |-> "", char |-> " "]]]

\* What render_contribution_heatmap prints when datetime.now() is `today`:
\* the notice, or the chart, given by its seven rows of cells
render_contribution_heatmap(data, today) ==
    IF data = <<>>
    THEN <<Said("no_commit_data_for_heatmap", <<>>)>>
    ELSE LET start_date == today - 364
             daily_commits == DailyCommits(<<>>, data, start_date, today)
             weeks == WeeksLoop(<<>>, start_date, (start_date + 6) % 7, today)
         IN  <<Said("contribution_heatmap", HeatmapRows(daily_commits, weeks))>>

render_file_churn(churn) ==
    IF churn = <<>>
    THEN <<Said("no_file_change_data", <<>>)>>
    ELSE <<Said("hotspots", churn)>>

render_velocity(velocity) ==
    IF velocity = <<>>
    THEN <<Said("no_velocity_data", <<>>)>>
    ELSE <<Said("code_velocity", velocity)>>

render_activity_chart_Notice(data) ==
    IF data = <<>>
    THEN <<Said("no_data", <<>>)>>
    ELSE <<Said("activity_chart", data)>>

\* lines 439-457: returns at once, printing nothing, when there is no data
render_activity_chart(data) ==
    IF data = <<>>
    THEN <<>>
    ELSE <<Said("activity_chart", data)>>

\* lines 481-557
\* As if the values were taken in the order given
sorted_AsGiven(values) == values

\* sorted(values) on a list of integers
RECURSIVE sorted(_)
sorted(values) ==
    IF values = <<>>
    THEN <<>>
    ELSE LET low == Min({values[i] : i \in 1..Len(values)})
             at == Min({i \in 1..Len(values) : values[i] = low})
         IN  <<low>> \o sorted(SubSeq(values, 1, at - 1)
                               \o SubSeq(values, at + 1, Len(values)))

\* line[i] = glyph for each <<i, glyph>> of writes, in order, on a Python
\* list: an index from -len(line) to -1 counts from the end, and one outside
\* -len(line)..len(line)-1 raises IndexError (None)
RECURSIVE Draw(_, _)
Draw(line_, writes) ==
    IF writes = <<>>
    THEN Some(line_)
    ELSE LET i == Head(writes)[1]
             at == IF i < 0 THEN Len(line_) + i ELSE i
         IN  IF at < 0 \/ at >= Len(line_)
             THEN None
             ELSE Draw([line_ EXCEPT ![at + 1] = Head(writes)[2]], Tail(writes))

\* render_boxplot(values) on a terminal of `columns` columns (None: there is
\* none): what it prints, and whether it ends by raising IndexError
render_boxplot(values, columns) ==
    IF values = <<>>
    THEN [printed |-> <<Said("no_data_for_box_plot", <<>>)>>, raised |-> FALSE]
    ELSE LET sorted_values == sorted(values)
             n == Len(sorted_values)
             min_val == sorted_values[1]
             q1 == sorted_values[n \div 4 + 1]
             median == sorted_values[n \div 2 + 1]
             q3 == sorted_values[(3 * n) \div 4 + 1]
             max_val == sorted_values[n]
             iqr == q3 - q1
             \* v < q1 - 1.5 * iqr or v > q3 + 1.5 * iqr: the floats are
             \* exact, so the comparisons are those of the doubled integers
             outliers == SelectSeq(sorted_values,
                                   LAMBDA v : \/ 2 * v < 2 * q1 - 3 * iqr
                                              \/ 2 * v > 2 * q3 + 3 * iqr)
             terminal_width == IF columns = None THEN 80 ELSE columns[1]
             chart_width == Min({terminal_width - 20, 60})
             value_range == IF max_val > min_val THEN max_val - min_val ELSE 1
             scale(val) ==
                 FloatToInt(FloatMul(chart_width, TrueDiv(val - min_val, value_range)))
             min_pos == 0
             q1_pos == scale(q1)
             med_pos == scale(median)
             q3_pos == scale(q3)
             max_pos == scale(max_val)
             range(a, b) == IF b > a THEN [k \in 1..(b - a) |-> a + k - 1] ELSE <<>>
             Each(positions, glyph) ==
                 [k \in 1..Len(positions) |-> <<positions[k], glyph>>]
             drawn == Draw([k \in 1..Max({chart_width + 1, 0}) |-> " "],
                           Each(range(min_pos, q1_pos), "whisker")
                           \o Each(range(q3_pos + 1, max_pos + 1), "whisker")
                           \o Each(range(q1_pos, q3_pos + 1), "box")
                           \o <<<<med_pos, "median">>, <<min_pos, "min marker">>,
                                <<max_pos, "max marker">>>>)
             head == <<Said("box_plot",
                            [min |-> min_val, q1 |-> q1, median |-> median,
                             q3 |-> q3, max |-> max_val])>>
                     \o (IF outliers # <<>>
                         THEN <<Said("outliers", Len(outliers))>>
                         ELSE <<>>)
         IN  IF drawn = None
             THEN [printed |-> head, raised |-> TRUE]
             ELSE [printed |-> Append(head, Said("box_plot_line", drawn[1])),
                   raised |-> FALSE]

\* lines 560-590
render_violinplot(data) ==
    IF data = <<>>
    THEN <<Said("no_data_for_violin_plot", <<>>)>>
    ELSE <<Said("violin_plot", data)>>

\* main from the return of get_git_logs to its next external command or its end
MainFetched ==
    /\ pc = "fetched"
    /\ IF StopsAfterFetch(commit_data)
       THEN /\ out' = Append(out, Said("no_commits_found", <<>>))
            /\ pc' = "done"
            /\ UNCHANGED <<files, notes, stats>>
       ELSE \E today \in Todays :
            /\ notes' = IF args.notify
                        THEN notes \o Notifications(commit_data, today)
                        ELSE notes
            /\ CASE args.output = "json" ->
                      /\ out' = Append(out, Said("json",
                                    JsonDocument(grouped_commits, commit_data)))
                      /\ pc' = "done"
                      /\ UNCHANGED <<files, stats>>
                 [] args.output = "csv" ->
                      /\ out' = out \o CsvRows(commit_data)
                      /\ pc' = "done"
                      /\ UNCHANGED <<files, stats>>
                 [] args.output = "svg" ->
                      /\ files' = IF grouped_commits # <<>>
                                  THEN Append(files, "git-count-commits.svg")
                                  ELSE files
                      /\ out' = out
                                \o (IF grouped_commits # <<>>
                                    THEN <<Said("svg_saved", <<>>)>>
                                    ELSE <<>>)
                                \o (IF args.heatmap
                                    THEN <<Said("heatmap_svg_note", <<>>)>>
                                    ELSE <<>>)
                      /\ pc' = "done"
                      /\ UNCHANGED stats
                 [] OTHER ->
                      LET details == get_commit_details(commit_data)
                          shown == out \o render_bars(grouped_commits, None, terminal)
                                   \o (IF args.heatmap
                                       THEN render_contribution_heatmap(commit_data, today)
                                       ELSE <<>>)
                      IN  IF args.insights /\ details = None
                          THEN /\ out' = shown
                               /\ pc' = "raised"
                               /\ UNCHANGED <<files, stats>>
                          ELSE /\ out' = IF args.insights
                                         THEN Append(shown, Said("insights", details[1]))
                                         ELSE shown
                               /\ stats' = IF args.insights THEN details ELSE stats
                               /\ pc' = CASE args.churn -> "get_file_churn"
                                          [] ~args.churn /\ args.velocity -> "get_velocity"
                                          [] OTHER -> "done"
                               /\ UNCHANGED files
    /\ UNCHANGED <<entry, clock, terminal, args, calls, grouped_commits, commit_data,
                   churn_data, velocity_data, line, parsed>>

\* get_file_churn and get_velocity: what the except clause makes of a failed run
OnFailedRun(run) == IF run.outcome = "nonzero" THEN "return" ELSE "raise"

\* get_file_churn; called from main, up to main's next external command
GetFileChurn ==
    /\ pc = "get_file_churn"
    /\ \E run \in IF entry = "main" THEN MainChurnRuns ELSE ChurnRuns :
         /\ calls' = Append(calls, run)
         /\ IF run.outcome # "ok" /\ OnFailedRun(run) = "raise"
            THEN /\ pc' = "raised"
                 /\ UNCHANGED <<churn_data, out>>
            ELSE /\ churn_data' = IF run.outcome = "ok"
                                  THEN FileChurn(run.stdout, args.top_n)
                                  ELSE <<>>
                 /\ out' = IF entry = "main"
                           THEN out \o render_file_churn(churn_data')
                           ELSE out
                 /\ pc' = ReturnTo("get_file_churn")
    /\ UNCHANGED <<entry, clock, terminal, args, files, notes, grouped_commits, commit_data,
                   velocity_data, stats, line, parsed>>

\* get_velocity; called from main, up to main's end
GetVelocity ==
    /\ pc = "get_velocity"
    /\ \E run \in IF entry = "main" THEN MainVelocityRuns ELSE VelocityRuns :
         /\ calls' = Append(calls, run)
         /\ IF run.outcome # "ok" /\ OnFailedRun(run) = "raise"
            THEN /\ pc' = "raised"
                 /\ UNCHANGED <<velocity_data, out>>
            ELSE /\ velocity_data' = IF run.outcome = "ok"
                                     THEN Velocity(run.stdout, args.period)
                                     ELSE <<>>
                 /\ out' = IF entry = "main"
                           THEN out \o render_velocity(velocity_data')
                           ELSE out
                 /\ pc' = ReturnTo("get_velocity")
    /\ UNCHANGED <<entry, clock, terminal, args, files, notes, grouped_commits, commit_data,
                   churn_data, stats, line, parsed>>

-----------------------------------------------------------------------------
(* The loop body of get_git_logs on one line *)

\* What a line is made of: the delimiter, white space, a timestamp, a letter
LineLexemes == {"|", " ", "T", "x"}

RECURSIVE Spelled(_)
Spelled(lexemes) ==
    IF lexemes = <<>>
    THEN <<>>
    ELSE (IF Head(lexemes) = "T" THEN Stamp1 ELSE <<Head(lexemes)>>)
         \o Spelled(Tail(lexemes))

LoopBody ==
    /\ pc = "loop_body"
    /\ parsed' = IF SkipsSilently(line) THEN None ELSE ParseCommit(line)
    /\ pc' = "loop_next"
    /\ UNCHANGED <<entry, clock, terminal, args, calls, out, files, notes, grouped_commits,
                   commit_data, churn_data, velocity_data, stats, line>>

-----------------------------------------------------------------------------
(* get_commit_details on the records a caller hands it *)

GetCommitDetails ==
    /\ pc = "get_commit_details"
    /\ stats' = get_commit_details(commit_data)
    /\ pc' = IF stats' = None THEN "raised" ELSE "done"
    /\ UNCHANGED <<entry, clock, terminal, args, calls, out, files, notes, grouped_commits,
                   commit_data, churn_data, velocity_data, line, parsed>>

-----------------------------------------------------------------------------
(* calculate_streaks on the records a caller hands it *)

\* The clock is read at line 222, after the early return of lines 194-195
CalculateStreaks ==
    /\ pc = "calculate_streaks"
    /\ \E today \in Todays :
         /\ stats' = Some(calculate_streaks(commit_data, today))
         /\ clock' = IF commit_data = <<>> THEN clock ELSE Some(today)
    /\ pc' = "done"
    /\ UNCHANGED <<entry, terminal, args, calls, out, files, notes, grouped_commits,
                   commit_data, churn_data, velocity_data, line, parsed>>

-----------------------------------------------------------------------------
(* The rendering routines on the data a caller hands them *)

\* What a rendering routine leaves alone: all but standard output
RenderFrame ==
    <<entry, clock, terminal, args, calls, files, notes, grouped_commits, commit_data,
      churn_data, velocity_data, stats, line, parsed>>

RenderBars ==
    /\ pc = "render_bars"
    /\ out' = out \o render_bars(args.data, args.max_width, terminal)
    /\ pc' = "done"
    /\ UNCHANGED RenderFrame

RenderActivityChart ==
    /\ pc = "render_activity_chart"
    /\ out' = out \o render_activity_chart(args.data)
    /\ pc' = "done"
    /\ UNCHANGED RenderFrame

RenderFileChurn ==
    /\ pc = "render_file_churn"
    /\ out' = out \o render_file_churn(args.data)
    /\ pc' = "done"
    /\ UNCHANGED RenderFrame

RenderVelocity ==
    /\ pc = "render_velocity"
    /\ out' = out \o render_velocity(args.data)
    /\ pc' = "done"
    /\ UNCHANGED RenderFrame

RenderBoxplot ==
    /\ pc = "render_boxplot"
    /\ LET run == render_boxplot(args.data, terminal)
       IN  /\ out' = out \o run.printed
           /\ pc' = IF run.raised THEN "raised" ELSE "done"
    /\ UNCHANGED RenderFrame

RenderViolinplot ==
    /\ pc = "render_violinplot"
    /\ out' = out \o render_violinplot(args.data)
    /\ pc' = "done"
    /\ UNCHANGED RenderFrame

RenderContributionHeatmap ==
    /\ pc = "render_contribution_heatmap"
    /\ \E today \in Todays :
         /\ out' = out \o render_contribution_heatmap(args.data, today)
         /\ clock' = IF args.data = <<>> THEN clock ELSE Some(today)
    /\ pc' = "done"
    /\ UNCHANGED <<entry, terminal, args, calls, files, notes, grouped_commits, commit_data,
                   churn_data, velocity_data, stats, line, parsed>>

-----------------------------------------------------------------------------
(* Specifications *)

PipeIdle ==
    /\ args = DefaultArgs
    /\ calls = <<>>
    /\ out = <<>>
    /\ files = <<>>
    /\ notes = <<>>
    /\ grouped_commits = <<>>
    /\ commit_data = <<>>
    /\ churn_data = <<>>
    /\ velocity_data = <<>>
    /\ stats = None
    /\ clock = None
    /\ terminal = None

LineIdle ==
    /\ line = <<>>
    /\ parsed = None

\* A caller invokes main or one of the fetch functions
Init ==
    /\ entry \in {"main", "get_git_logs", "get_file_churn", "get_velocity"}
    /\ pc = entry
    /\ args \in ArgsOf(entry)
    /\ calls = <<>>
    /\ out = <<>>
    /\ files = <<>>
    /\ notes = <<>>
    /\ grouped_commits = <<>>
    /\ commit_data = <<>>
    /\ churn_data = <<>>
    /\ velocity_data = <<>>
    /\ stats = None
    /\ clock = None
    /\ terminal = None
    /\ LineIdle

Next ==
    \/ Main
    \/ GetGitLogsCheck
    \/ GetGitLogsRun
    \/ MainFetched
    \/ GetFileChurn
    \/ GetVelocity

Spec == Init /\ [][Next]_vars

\* The loop body applied to every line up to MaxLineLen lexemes
InitLine ==
    /\ entry = "loop"
    /\ pc = "loop_body"
    /\ PipeIdle
    /\ line \in {Spelled(l) : l \in BoundedSeq(LineLexemes, MaxLineLen)}
    /\ parsed = None

NextLine == LoopBody

SpecLine == InitLine /\ [][NextLine]_vars

\* get_commit_details applied to every sequence of up to MaxCommits records
InitDetails ==
    /\ entry = "get_commit_details"
    /\ pc = entry
    /\ args = DefaultArgs
    /\ calls = <<>>
    /\ out = <<>>
    /\ files = <<>>
    /\ notes = <<>>
    /\ grouped_commits = <<>>
    /\ commit_data \in BoundedSeq(CommitPool, MaxCommits)
    /\ churn_data = <<>>
    /\ velocity_data = <<>>
    /\ stats = None
    /\ clock = None
    /\ terminal = None
    /\ LineIdle

NextDetails == GetCommitDetails

SpecDetails == InitDetails /\ [][NextDetails]_vars

\* calculate_streaks applied to every sequence of up to MaxStreakCommits records
InitStreaks ==
    /\ entry = "calculate_streaks"
    /\ pc = entry
    /\ args = DefaultArgs
    /\ calls = <<>>
    /\ out = <<>>
    /\ files = <<>>
    /\ notes = <<>>
    /\ grouped_commits = <<>>
    /\ commit_data \in BoundedSeq(StreakPool, MaxStreakCommits)
    /\ churn_data = <<>>
    /\ velocity_data = <<>>
    /\ stats = None
    /\ clock = None
    /\ terminal = None
    /\ LineIdle

NextStreaks == CalculateStreaks

SpecStreaks == InitStreaks /\ [][NextStreaks]_vars

\* A caller invokes one rendering routine
\* render_bars, render_velocity and render_boxplot ask for the terminal's size
\* (lines 424, 340, 521); for the others one terminal stands for all
InitRender ==
    /\ entry \in Renderers
    /\ pc = entry
    /\ args \in RenderArgs(entry)
    /\ calls = <<>>
    /\ out = <<>>
    /\ files = <<>>
    /\ notes = <<>>
    /\ grouped_commits = <<>>
    /\ commit_data = <<>>
    /\ churn_data = <<>>
    /\ velocity_data = <<>>
    /\ stats = None
    /\ clock = None
    /\ terminal \in IF entry \in {"render_bars", "render_velocity", "render_boxplot"}
                    THEN TerminalColumns
                    ELSE {None}
    /\ LineIdle

NextRender ==
    \/ RenderBars
    \/ RenderActivityChart
    \/ RenderFileChurn
    \/ RenderVelocity
    \/ RenderBoxplot
    \/ RenderViolinplot
    \/ RenderContributionHeatmap

SpecRender == InitRender /\ [][NextRender]_vars

-----------------------------------------------------------------------------
(* What the claims speak of *)

FetchEntries == {"main", "get_git_logs"}

\* The places of the delimiters of a line, in order
Delimiters(text) == SortedSet({i \in 1..Len(text) : text[i] = "|"})

\* A line of the form timestamp|hash|author|message
IsLogLine(text) ==
    /\ Len(Delimiters(text)) >= 3
    /\ fromisoformat(strip(SubSeq(text, 1, Delimiters(text)[1] - 1))) # None

\* The record such a line stands for
RecordOf(text) ==
    LET d == Delimiters(text)
    IN  [hash |-> SubSeq(text, d[1] + 1, d[2] - 1),
         date |-> fromisoformat(strip(SubSeq(text, 1, d[1] - 1)))[1],
         author |-> SubSeq(text, d[2] + 1, d[3] - 1),
         message |-> SubSeq(text, d[3] + 1, Len(text))]

RECURSIVE RecordsOf(_)
RecordsOf(lines) ==
    IF lines = <<>>
    THEN <<>>
    ELSE (IF IsLogLine(Head(lines)) THEN <<RecordOf(Head(lines))>> ELSE <<>>)
         \o RecordsOf(Tail(lines))

RECURSIVE SumOfValues(_)
SumOfValues(d) == IF d = <<>> THEN 0 ELSE Head(d)[2] + SumOfValues(Tail(d))

Kinds(printed) == [i \in 1..Len(printed) |-> printed[i][1]]

\* The lines get_git_logs looped over, once its git log has run
LoggedLines == StripSplit(calls[2].stdout)

LogSucceeded ==
    /\ entry \in FetchEntries
    /\ Len(calls) >= 2
    /\ calls[2].outcome = "ok"

\* C1: when the repository check of get_git_logs exits non-zero, the function
\* prints the not-a-repository error, returns ({}, []) and git log is not run
\* in that call: the check stays the only command run.
C1_NotARepository ==
    (entry \in FetchEntries /\ calls # <<>> /\ calls[1].outcome = "nonzero") =>
        /\ Len(calls) = 1
        /\ pc \in {"fetched", "done"}
        /\ out # <<>> /\ out[1][1] = "not_a_git_repository"
        /\ grouped_commits = <<>>
        /\ commit_data = <<>>

C1_Witness ==
    /\ entry = "get_git_logs"
    /\ pc = "done"
    /\ Len(calls) = 1
    /\ calls[1].cmd = "rev-parse"
    /\ calls[1].outcome = "nonzero"

\* C2: whatever an external command does (exit 0, exit non-zero, fail to
\* start), get_git_logs, get_file_churn and get_velocity return to their
\* caller, with their empty value after a failure; no exception escapes.
C2_NoExceptionEscapes ==
    (entry \in {"get_git_logs", "get_file_churn", "get_velocity"}) =>
        /\ pc # "raised"
        /\ (pc = "done" /\ calls[Len(calls)].outcome # "ok") =>
              /\ grouped_commits = <<>>
              /\ commit_data = <<>>
              /\ churn_data = <<>>
              /\ velocity_data = <<>>

\* C3: whenever the log/diff command of get_git_logs, get_file_churn or
\* get_velocity exits non-zero, the function prints an error report that holds
\* the captured diagnostic text and returns its empty result.
C3_NonZeroExitReported ==
    \A i \in 1..Len(calls) :
        (calls[i].cmd # "rev-parse" /\ calls[i].outcome = "nonzero") =>
            /\ \E j \in 1..Len(out) :
                  out[j][1] = "error_details" /\ out[j][2] = <<calls[i].stderr>>
            /\ calls[i].cmd = "log" => grouped_commits = <<>> /\ commit_data = <<>>
            /\ calls[i].cmd = "log --name-only" => churn_data = <<>>
            /\ calls[i].cmd = "log --numstat" => velocity_data = <<>>

\* C4: for every cap n >= 0 given as max_commits and every log output with k
\* well-formed lines, get_git_logs returns the first min(n, k) parsed records
\* in the order of the output, and the grouped counts count those records.
C4_CapTruncates ==
    (/\ entry = "get_git_logs" /\ pc = "done" /\ LogSucceeded
     /\ args.period \in Periods
     /\ args.max_commits # None /\ args.max_commits[1] >= 0) =>
        LET records == RecordsOf(LoggedLines)
            n == args.max_commits[1]
        IN  /\ commit_data = SubSeq(records, 1, Min({n, Len(records)}))
            /\ SumOfValues(grouped_commits) = Min({n, Len(records)})

PeriodFormat == [day |-> "%Y-%m-%d", month |-> "%Y-%m", year |-> "%Y"]

\* C5: for each period of day, month and year, every key of the grouped counts
\* get_git_logs returns is the rendering of the timestamp of a returned
\* commit in the period's format, and its count is the number of returned
\* commits with that key; so each count is at least 1 and the counts sum to
\* the number of commits returned.
C5_GroupedCounts ==
    (entry \in FetchEntries /\ args.period \in Periods) =>
        LET KeyOf(i) == strftime(commit_data[i].date, PeriodFormat[args.period])
            With(key) == {i \in 1..Len(commit_data) : KeyOf(i) = key}
        IN  /\ \A j \in 1..Len(grouped_commits) :
                  /\ With(grouped_commits[j][1]) # {}
                  /\ grouped_commits[j][2] = Cardinality(With(grouped_commits[j][1]))
                  /\ grouped_commits[j][2] >= 1
                  /\ \A k \in 1..Len(grouped_commits) :
                        grouped_commits[k][1] = grouped_commits[j][1] => k = j
            /\ SumOfValues(grouped_commits) = Len(commit_data)

C5_Witness ==
    /\ entry = "get_git_logs"
    /\ pc = "done"
    /\ args.period = "month"
    /\ args.max_commits = Some(2)
    /\ LogSucceeded
    /\ Len(RecordsOf(LoggedLines)) = 3
    /\ Len(grouped_commits) = 2
    /\ grouped_commits[1][2] = 1

\* C6: for a line timestamp|hash|author|message the record parsed has the
\* second field as its hash, the third as its author, and as its message all
\* the text after the third delimiter, further delimiters included.
C6_FieldsOfALine ==
    (pc = "loop_next" /\ IsLogLine(line)) =>
        LET d == Delimiters(line)
        IN  /\ parsed # None
            /\ parsed[1].hash = SubSeq(line, d[1] + 1, d[2] - 1)
            /\ parsed[1].author = SubSeq(line, d[2] + 1, d[3] - 1)
            /\ parsed[1].message = SubSeq(line, d[3] + 1, Len(line))

C6_Witness ==
    /\ pc = "loop_next"
    /\ IsLogLine(line)
    /\ parsed # None
    /\ \E i \in 1..Len(parsed[1].message) : parsed[1].message[i] = "|"

\* Neither cap nor unknown period: the call returns what the loop parsed
ReturnsAllParsed ==
    /\ entry = "get_git_logs"
    /\ pc = "done"
    /\ LogSucceeded
    /\ args.period \in Periods
    /\ args.max_commits = None
    /\ \E i \in 1..Len(LoggedLines) : IsLogLine(LoggedLines[i])

\* C7 as claimed: for a log output with a well-formed line, get_git_logs
\* returns the records of the well-formed lines in order, and each malformed
\* line (fewer than four fields or an unparseable timestamp) is skipped with a
\* warning, without aborting the call.
C7_EveryMalformedLineWarned ==
    ReturnsAllParsed =>
        /\ commit_data = RecordsOf(LoggedLines)
        /\ Kinds(out) = [i \in 1..Len(out) |-> "warning_malformed"]
        /\ Len(out) = Cardinality({i \in 1..Len(LoggedLines) :
                                      ~IsLogLine(LoggedLines[i])})

\* C7, amended: for a log output with a well-formed line, get_git_logs
\* returns the records of the well-formed lines in order; each malformed line
\* that is not empty is skipped with a warning and an empty line is skipped
\* without one; neither aborts the call.
C7_NonEmptyMalformedLineWarned ==
    ReturnsAllParsed =>
        /\ commit_data = RecordsOf(LoggedLines)
        /\ Kinds(out) = [i \in 1..Len(out) |-> "warning_malformed"]
        /\ Len(out) = Cardinality({i \in 1..Len(LoggedLines) :
                                      /\ ~IsLogLine(LoggedLines[i])
                                      /\ LoggedLines[i] # <<>>})

C7_Witness ==
    /\ ReturnsAllParsed
    /\ Len(LoggedLines) = 3
    /\ LoggedLines[2] = <<>>
    /\ ~IsLogLine(LoggedLines[3])
    /\ Len(commit_data) = 1
    /\ Len(out) = 1

FetchMessages ==
    {"not_a_git_repository", "no_commits_for_period", "warning_malformed",
     "error_executing_git", "error_details", "unexpected_error"}

\* main has the result of the fetch, and it is empty
FetchedNothing ==
    /\ entry = "main"
    /\ calls # <<>>
    /\ pc \notin {"get_git_logs", "git_log", "raised"}
    /\ commit_data = <<>>

\* C8: when the fetch yields no commit, main prints its no-commits message
\* and returns: nothing is rendered or exported, no file is written, no
\* notification sent and no further command run, whatever the flags.
C8_EmptyFetchEndsMain ==
    /\ FetchedNothing /\ pc # "fetched" =>
          /\ pc = "done"
          /\ out[Len(out)][1] = "no_commits_found"
          /\ \A i \in 1..(Len(out) - 1) : out[i][1] \in FetchMessages
          /\ files = <<>>
          /\ notes = <<>>
          /\ stats = None
          /\ \A i \in 1..Len(calls) : calls[i].cmd \in {"rev-parse", "log"}
          /\ Len(calls) <= 2
    /\ FetchedNothing /\ pc = "fetched" =>
          \A i \in 1..Len(out) : out[i][1] \in FetchMessages

C8_Witness ==
    /\ FetchedNothing
    /\ pc = "done"
    /\ args.notify /\ args.insights /\ args.churn /\ args.velocity /\ args.heatmap
    /\ args.output = "text"
    /\ Len(calls) = 2
    /\ calls[2].outcome = "ok"
    /\ out[Len(out)][1] = "no_commits_found"

\* C9: for a non-empty sequence of commit records get_commit_details returns
\* total_commits = the length of the sequence, first_commit = the earliest
\* timestamp and last_commit = the latest, whatever the order of the records.
C9_TotalFirstLast ==
    (entry = "get_commit_details" /\ pc # "get_commit_details"
     /\ commit_data # <<>>) =>
        /\ pc = "done"
        /\ stats[1].total_commits = Len(commit_data)
        /\ \E i \in 1..Len(commit_data) : commit_data[i].date = stats[1].first_commit
        /\ \E i \in 1..Len(commit_data) : commit_data[i].date = stats[1].last_commit
        /\ \A i \in 1..Len(commit_data) :
              /\ ~Earlier(commit_data[i].date, stats[1].first_commit)
              /\ ~Earlier(stats[1].last_commit, commit_data[i].date)

C9_Witness ==
    /\ entry = "get_commit_details"
    /\ pc = "done"
    /\ Len(commit_data) = 3
    /\ stats[1].first_commit = commit_data[2].date
    /\ stats[1].last_commit = commit_data[1].date
    /\ Earlier(stats[1].first_commit, commit_data[3].date)
    /\ Earlier(commit_data[3].date, stats[1].last_commit)

ClassOrder == <<"fixes", "features", "documentation", "refactoring", "tests">>

ClassPrefixes ==
    [fixes |-> {Fix, Bug}, features |-> {Feat, Add},
     documentation |-> {Doc, Readme},
     refactoring |-> {Refactor, Style, Clean}, tests |-> {Test}]

\* The message begins with the prefix, case ignored
BeginsWith(message, prefix) ==
    /\ Len(message) >= Len(prefix)
    /\ \A i \in 1..Len(prefix) : lower(<<message[i]>>) = <<prefix[i]>>

\* The classes with a prefix the message begins with
Matching(message) ==
    {k \in 1..Len(ClassOrder) :
        \E p \in ClassPrefixes[ClassOrder[k]] : BeginsWith(message, p)}

ClassOf(message) ==
    LET matching == Matching(message)
    IN  IF matching = {} THEN "other" ELSE ClassOrder[Min(matching)]

RECURSIVE ClassesOf(_)
ClassesOf(data) ==
    IF data = <<>>
    THEN <<>>
    ELSE <<ClassOf(Head(data).message)>> \o ClassesOf(Tail(data))

\* C10: get_commit_details counts every commit in exactly one class, the
\* first in the order fixes, features, documentation, refactoring, tests
\* whose prefix its message begins with, case ignored, else other; so the
\* class counts sum to total_commits.
C10_CommitTypes ==
    (entry = "get_commit_details" /\ pc = "done") =>
        LET types == stats[1].commit_types
            classes == ClassesOf(commit_data)
        IN  /\ \A j \in 1..Len(types) :
                  /\ types[j][1] \in {"other"}
                        \cup {ClassOrder[k] : k \in 1..Len(ClassOrder)}
                  /\ types[j][2] =
                        Cardinality({i \in 1..Len(classes) : classes[i] = types[j][1]})
                  /\ \A k \in 1..Len(types) : types[k][1] = types[j][1] => k = j
            /\ \A i \in 1..Len(classes) : classes[i] \in DictKeys(types)
            /\ SumOfValues(types) = stats[1].total_commits

C10_Witness ==
    /\ entry = "get_commit_details"
    /\ pc = "done"
    /\ Len(commit_data) = 3
    /\ commit_data[1].message = <<"F", "i", "x", " ", "b", "u", "g">>
    /\ commit_data[2].message = <<"B", "U", "G">>
    /\ commit_data[3].message = <<"a", " ", "f", "i", "x">>
    /\ stats[1].commit_types = << <<"fixes", 2>>, <<"other", 1>> >>

\* The calendar dates with a commit, as day numbers
CommitDays ==
    {DaysBeforeYear(commit_data[i].date.year)
     + DaysBeforeMonth(commit_data[i].date.year, commit_data[i].date.month)
     + commit_data[i].date.day : i \in 1..Len(commit_data)}

\* Every day of the k days that end with `last` is one of `days`
RunEnds(days, last, k) == \A j \in 0..(k - 1) : (last - j) \in days

\* The length of the longest run of days in a row that ends with `last`
RunEnding(days, last) ==
    IF last \in days
    THEN Max({k \in 1..Cardinality(days) : RunEnds(days, last, k)})
    ELSE 0

StreaksReturned ==
    /\ entry = "calculate_streaks"
    /\ pc = "done"

\* C11: longest_streak is the greatest length of a run of consecutive
\* calendar dates among the distinct commit dates, whether or not that run is
\* the latest; it is 0 for no commit and 1 for a single commit.
C11_LongestStreak ==
    StreaksReturned =>
        LET days == CommitDays
        IN  /\ stats[1].longest_streak =
                  Max({0} \cup {RunEnding(days, d) : d \in days})
            /\ commit_data = <<>> => stats[1].longest_streak = 0
            /\ Len(commit_data) = 1 => stats[1].longest_streak = 1

\* The longest run is an old one: two days in a row, then a gap, then one day
C11_Witness ==
    /\ StreaksReturned
    /\ Len(commit_data) = 4
    /\ Cardinality(CommitDays) = 3
    /\ stats[1].longest_streak = 2
    /\ RunEnding(CommitDays, Max(CommitDays)) = 1
    /\ stats[1].current_streak = 1

\* C12: current_streak is the length of the run of consecutive commit dates
\* that ends today when today has a commit, else of the run that ends
\* yesterday, and 0 when neither day has a commit; N daily commits in a row
\* ending today give current_streak = longest_streak = N.
C12_CurrentStreak ==
    (StreaksReturned /\ clock # None) =>
        LET today == clock[1]
            days == CommitDays
        IN  /\ stats[1].current_streak =
                  IF today \in days THEN RunEnding(days, today)
                  ELSE IF (today - 1) \in days THEN RunEnding(days, today - 1)
                  ELSE 0
            /\ (\A d \in days : today - d \in 0..(Cardinality(days) - 1)) =>
                  /\ stats[1].current_streak = Cardinality(days)
                  /\ stats[1].longest_streak = Cardinality(days)

\* Today has no commit, and the three days before it have
C12_Witness ==
    /\ StreaksReturned
    /\ clock # None
    /\ clock[1] \notin CommitDays
    /\ stats[1].current_streak = 3
    /\ stats[1].longest_streak = 3

ChurnReturned ==
    /\ entry = "get_file_churn"
    /\ pc = "done"
    /\ calls[1].outcome = "ok"

\* The lines of the listing as the command wrote them
ListedLines == calls[1].stdout

\* The same lines without the white space around them
TrimmedLines == [i \in 1..Len(ListedLines) |-> strip(ListedLines[i])]

\* What the claim says of the pairs returned, for the listing `lines`
IsChurnOf(lines) ==
    LET paths == {lines[i] : i \in 1..Len(lines)} \ {<<>>}
        Count(path) == Cardinality({i \in 1..Len(lines) : lines[i] = path})
        First(path) == Min({i \in 1..Len(lines) : lines[i] = path})
        Before(p, q) ==
            \/ Count(p) > Count(q)
            \/ Count(p) = Count(q) /\ First(p) < First(q)
        returned == {churn_data[j][1] : j \in 1..Len(churn_data)}
    IN  /\ Len(churn_data) = Min({args.top_n, Cardinality(paths)})
        /\ Cardinality(returned) = Len(churn_data)
        /\ returned \subseteq paths
        /\ \A j \in 1..Len(churn_data) : churn_data[j][2] = Count(churn_data[j][1])
        /\ \A j \in 1..Len(churn_data) : \A k \in (j + 1)..Len(churn_data) :
              Before(churn_data[j][1], churn_data[k][1])
        /\ \A p \in returned : \A q \in paths \ returned : Before(p, q)

\* C13 as claimed: for any listing and any limit N >= 0, get_file_churn
\* returns min(N, number of distinct paths) pairs (path, count), counts not
\* increasing, equal counts in the order first seen in the output, and each
\* count is the number of lines equal to the path.
C13_ChurnOfListedLines == ChurnReturned => IsChurnOf(ListedLines)

\* C13, amended: the same, with the lines taken without the white space around
\* them: a path is a line stripped, and its count the number of lines that
\* equal it once stripped.
C13_ChurnOfTrimmedLines == ChurnReturned => IsChurnOf(TrimmedLines)

\* Three paths, two of them as often as each other, and a limit of two
C13_Witness ==
    /\ ChurnReturned
    /\ args.top_n = 2
    /\ Len(ListedLines) = 3
    /\ Cardinality({TrimmedLines[i] : i \in 1..3}) = 3
    /\ <<>> \notin {TrimmedLines[i] : i \in 1..3}
    /\ Len(churn_data) = 2
    /\ churn_data[1] = <<TrimmedLines[1], 1>>
    /\ churn_data[2] = <<TrimmedLines[2], 1>>

VelocityReturned ==
    /\ entry = "get_velocity"
    /\ pc = "done"
    /\ calls[1].outcome = "ok"
    /\ args.period \in Periods

\* The places of the tabs of a line, in order
Tabs(text) == SortedSet({i \in 1..Len(text) : text[i] = "\t"})

\* A count of a stat line: digits, or "-" for a binary file
IsStatCount(field) == field = <<"-">> \/ (field # <<>> /\ AllDigits(field))

StatCount(field) == IF field = <<"-">> THEN 0 ELSE Number(field)

\* A numeric-stat line: added TAB removed TAB path
IsStatLine(text) ==
    /\ Len(Tabs(text)) >= 2
    /\ IsStatCount(SubSeq(text, 1, Tabs(text)[1] - 1))
    /\ IsStatCount(SubSeq(text, Tabs(text)[1] + 1, Tabs(text)[2] - 1))

AddedOf(text) == StatCount(SubSeq(text, 1, Tabs(text)[1] - 1))

RemovedOf(text) == StatCount(SubSeq(text, Tabs(text)[1] + 1, Tabs(text)[2] - 1))

\* A date marker: a line that is a timestamp
IsDateMarker(text) == fromisoformat(text) # None

RECURSIVE SumTo(_, _)
SumTo(f, n) == IF n = 0 THEN 0 ELSE f[n] + SumTo(f, n - 1)

\* C14: every numeric-stat line after a date marker, whatever its path, adds
\* its added and removed counts to the period of the nearest date marker
\* above it, so get_velocity returns, for each period with such a line, the
\* sums of the counts of the lines attributed to it.
C14_StatLinesAttributed ==
    VelocityReturned =>
        LET lines == calls[1].stdout
            n == Len(lines)
            MarkersAbove(i) == {j \in 1..(i - 1) : IsDateMarker(lines[j])}
            Counted(i) == IsStatLine(lines[i]) /\ MarkersAbove(i) # {}
            KeyOf(i) == strftime(fromisoformat(lines[Max(MarkersAbove(i))])[1],
                                 PeriodFormat[args.period])
            keys == {KeyOf(i) : i \in {k \in 1..n : Counted(k)}}
            Added(key) == SumTo([i \in 1..n |->
                                   IF Counted(i) /\ KeyOf(i) = key
                                   THEN AddedOf(lines[i]) ELSE 0], n)
            Removed(key) == SumTo([i \in 1..n |->
                                     IF Counted(i) /\ KeyOf(i) = key
                                     THEN RemovedOf(lines[i]) ELSE 0], n)
        IN  /\ {velocity_data[j][1] : j \in 1..Len(velocity_data)} = keys
            /\ Len(velocity_data) = Cardinality(keys)
            /\ \A j \in 1..Len(velocity_data) :
                  /\ velocity_data[j][2].added = Added(velocity_data[j][1])
                  /\ velocity_data[j][2].removed = Removed(velocity_data[j][1])

\* C15: for the empty sequence of commit records, get_commit_details and
\* calculate_streaks return a defined empty or zero result and do not raise.
C15_EmptyInputTolerated ==
    (entry \in {"get_commit_details", "calculate_streaks"} /\ commit_data = <<>>) =>
        /\ pc # "raised"
        /\ pc = "done" => stats # None

NoDataNotices ==
    {"no_commits", "no_file_change_data", "no_velocity_data",
     "no_data_for_box_plot", "no_data_for_violin_plot",
     "no_commit_data_for_heatmap"}

\* A rendering routine was handed empty data and is over
RenderedNothing ==
    /\ entry \in Renderers
    /\ pc # entry
    /\ args.data = <<>>

EmitsNotice ==
    /\ pc = "done"
    /\ Len(out) = 1
    /\ out[1][1] \in NoDataNotices

\* C16 as claimed: each of the seven rendering routines, given empty input,
\* does not raise and prints a "no data" notice.
C16_EveryRendererGivesNotice == RenderedNothing => EmitsNotice

\* C16, amended: given empty input no rendering routine raises; render_bars,
\* render_file_churn, render_velocity, render_boxplot, render_violinplot and
\* render_contribution_heatmap print a "no data" notice, and
\* render_activity_chart prints nothing.
C16_RenderersButActivityChartGiveNotice ==
    RenderedNothing =>
        /\ pc = "done"
        /\ entry # "render_activity_chart" => EmitsNotice
        /\ entry = "render_activity_chart" => out = <<>>

C16_Witness ==
    /\ RenderedNothing
    /\ entry = "render_bars"
    /\ out = <<Said("no_commits", <<>>)>>

\* C17: render_activity_chart called with an empty data map writes nothing
\* to standard output and returns.
C17_ActivityChartSilentOnEmpty ==
    (entry = "render_activity_chart" /\ pc # entry /\ args.data = <<>>) =>
        /\ pc = "done"
        /\ out = <<>>
        /\ files = <<>>
        /\ calls = <<>>

C17_Witness ==
    /\ entry = "render_activity_chart"
    /\ pc = "done"
    /\ args.data = <<>>
    /\ out = <<>>

\* main ran to its end in an export mode, with a commit fetched
Exported ==
    /\ entry = "main"
    /\ pc = "done"
    /\ args.output \in {"json", "csv"}
    /\ commit_data # <<>>

\* C18: in json or csv mode, when the run yields a commit, standard output is
\* the export and nothing else: for json one document with grouped_commits and
\* one {hash, date, author, message} entry per fetched commit, in order; for
\* csv the header Date,Hash,Author,Message, then one row per fetched commit,
\* in order.
C18_OnlyTheExportIsPrinted ==
    Exported =>
        IF args.output = "json"
        THEN /\ Kinds(out) = <<"json">>
             /\ out[1][2].grouped_commits = grouped_commits
             /\ Len(out[1][2].commit_data) = Len(commit_data)
             /\ \A i \in 1..Len(commit_data) :
                   /\ DOMAIN out[1][2].commit_data[i] =
                         {"hash", "date", "author", "message"}
                   /\ out[1][2].commit_data[i].hash = commit_data[i].hash
                   /\ out[1][2].commit_data[i].date = isoformat(commit_data[i].date)
                   /\ out[1][2].commit_data[i].author = commit_data[i].author
                   /\ out[1][2].commit_data[i].message = commit_data[i].message
        ELSE /\ Kinds(out) = [i \in 1..(Len(commit_data) + 1) |-> "csv_row"]
             /\ out[1][2] = <<"Date", "Hash", "Author", "Message">>
             /\ \A i \in 1..Len(commit_data) :
                   out[i + 1][2] = <<isoformat(commit_data[i].date),
                                     commit_data[i].hash, commit_data[i].author,
                                     commit_data[i].message>>

\* C19: with the version flag main prints "git-count " and the package
\* version, which is 0.3.0, and returns: no external command is run and
\* nothing else is printed.
C19_VersionFlag ==
    (entry = "main" /\ args.version /\ pc # "main") =>
        /\ pc = "done"
        /\ Kinds(out) = <<"version">>
        /\ out[1][2] = <<"0", ".", "3", ".", "0">>
        /\ calls = <<>>
        /\ files = <<>>
        /\ notes = <<>>

\* C20: get_git_logs, get_file_churn and get_velocity each make exactly two
\* external calls in sequence per invocation, the repository check and then
\* the log/diff command, and start the log/diff command only after the
\* repository check has succeeded.
C20_CheckThenCommand ==
    (entry \in {"get_git_logs", "get_file_churn", "get_velocity"}) =>
        /\ \A i \in 1..Len(calls) :
              calls[i].cmd # "rev-parse" =>
                  /\ i = 2
                  /\ calls[1].cmd = "rev-parse"
                  /\ calls[1].outcome = "ok"
        /\ (pc = "done" /\ \A i \in 1..Len(calls) : calls[i].outcome = "ok") =>
              Len(calls) = 2


-----------------------------------------------------------------------------
(* Binary files and lines above the first date marker *)

\* A stat line of a binary file: both counts are "-"
IsBinaryStat(text) ==
    /\ IsStatLine(text)
    /\ SubSeq(text, 1, Tabs(text)[1] - 1) = <<"-">>
    /\ SubSeq(text, Tabs(text)[1] + 1, Tabs(text)[2] - 1) = <<"-">>

\* The date markers above line i of the output
MarkersAbove(lines, i) == {j \in 1..(i - 1) : IsDateMarker(lines[j])}

\* A stat line that the loop reaches as a stat line (a line with "-" as its
\* fifth character and more than ten characters is tried as a date instead)
IsTakenStat(text) == IsStatLine(text) /\ ~IsDateLine(text)

\* C21: in get_velocity a stat line of a binary file (both counts "-") adds
\* zero to both totals of its period, and a stat line above every date marker
\* changes no period's totals and creates no period entry: each returned
\* period is that of a date marker with a stat line below it, and its totals
\* are the sums of the counts of the non-binary stat lines attributed to it.
C21_BinaryAndUndatedLines ==
    VelocityReturned =>
        LET lines == calls[1].stdout
            n == Len(lines)
            Dated(i) == IsTakenStat(lines[i]) /\ MarkersAbove(lines, i) # {}
            KeyOf(i) == strftime(fromisoformat(lines[Max(MarkersAbove(lines, i))])[1],
                                 PeriodFormat[args.period])
            Adds(i, key) == Dated(i) /\ ~IsBinaryStat(lines[i]) /\ KeyOf(i) = key
        IN  \A j \in 1..Len(velocity_data) :
               LET key == velocity_data[j][1]
               IN  /\ \E i \in 1..n : Dated(i) /\ KeyOf(i) = key
                   /\ velocity_data[j][2].added =
                         SumTo([i \in 1..n |->
                                  IF Adds(i, key) THEN AddedOf(lines[i]) ELSE 0], n)
                   /\ velocity_data[j][2].removed =
                         SumTo([i \in 1..n |->
                                  IF Adds(i, key) THEN RemovedOf(lines[i]) ELSE 0], n)

\* A stat line above the only date marker and a binary file's line below it:
\* the period is returned with both totals zero
C21_Witness ==
    /\ VelocityReturned
    /\ Len(calls[1].stdout) = 3
    /\ IsTakenStat(calls[1].stdout[1]) /\ ~IsBinaryStat(calls[1].stdout[1])
    /\ IsDateMarker(calls[1].stdout[2])
    /\ IsBinaryStat(calls[1].stdout[3])
    /\ Len(velocity_data) = 1
    /\ velocity_data[1][2] = [added |-> 0, removed |-> 0]


-----------------------------------------------------------------------------
(* Peak hour and peak weekday *)

DetailsReturned ==
    /\ entry = "get_commit_details"
    /\ pc = "done"
    /\ commit_data # <<>>

\* The places in data of the commits whose hour is h, whose weekday is d
AtHour(data, h) == {i \in 1..Len(data) : data[i].date.hour = h}

OnWeekday(data, d) == {i \in 1..Len(data) : weekday(data[i].date) = d}

\* C22: for a non-empty commit sequence get_commit_details returns peak_hour
\* as (hour, count): count is the largest number of commits of one hour, and
\* of the hours with that many commits hour is the one met first in the
\* sequence; peak_weekday is chosen the same way over the weekdays and is
\* named Monday-first.
C22_PeakHourAndWeekday ==
    DetailsReturned =>
        LET data == commit_data
            peak_hour == stats[1].peak_hour
            peak_weekday == stats[1].peak_weekday
            day == CHOOSE d \in 0..6 : weekday_names[d + 1] = peak_weekday[1]
        IN  /\ peak_hour[1] \in 0..23
            /\ peak_hour[2] = Cardinality(AtHour(data, peak_hour[1]))
            /\ peak_hour[2] >= 1
            /\ \A h \in (0..23) \ {peak_hour[1]} :
                  \/ Cardinality(AtHour(data, h)) < peak_hour[2]
                  \/ /\ Cardinality(AtHour(data, h)) = peak_hour[2]
                     /\ Min(AtHour(data, peak_hour[1])) < Min(AtHour(data, h))
            /\ peak_weekday[1] \in
                  {"Monday", "Tuesday", "Wednesday", "Thursday", "Friday",
                   "Saturday", "Sunday"}
            /\ peak_weekday[1] =
                  <<"Monday", "Tuesday", "Wednesday", "Thursday", "Friday",
                    "Saturday", "Sunday">>[day + 1]
            /\ peak_weekday[2] = Cardinality(OnWeekday(data, day))
            /\ peak_weekday[2] >= 1
            /\ \A d \in (0..6) \ {day} :
                  \/ Cardinality(OnWeekday(data, d)) < peak_weekday[2]
                  \/ /\ Cardinality(OnWeekday(data, d)) = peak_weekday[2]
                     /\ Min(OnWeekday(data, day)) < Min(OnWeekday(data, d))

\* Two hours and two weekdays with as many commits each: the first commit is
\* of Wednesday 2024-06-12 at 14, a later one of Monday 2024-06-10 at 9, and
\* the later hour and the later weekday are the peaks
C22_Witness ==
    /\ DetailsReturned
    /\ commit_data[1].date = Datetime(2024, 6, 12, 14, 0, 0)
    /\ \E i \in 2..Len(commit_data) :
          commit_data[i].date = Datetime(2024, 6, 10, 9, 0, 0)
    /\ stats[1].peak_hour[1] = 14
    /\ Cardinality(AtHour(commit_data, 9)) = stats[1].peak_hour[2]
    /\ stats[1].peak_weekday[1] = "Wednesday"
    /\ Cardinality({i \in 1..Len(commit_data) :
                      commit_data[i].date.day = 10}) = stats[1].peak_weekday[2]


-----------------------------------------------------------------------------
(* The contribution heatmap *)

HeatmapShown ==
    /\ entry = "render_contribution_heatmap"
    /\ pc = "done"
    /\ args.data # <<>>

\* The Monday of the week of a day, days being ordinals (day 1 is a Monday)
MondayOf(d) == d - ((d + 6) % 7)

\* The row of a day: 1 for Monday up to 7 for Sunday
RowOf(d) == ((d + 6) % 7) + 1

\* The week column of a day in a chart whose first day is start
ColumnOf(d, start) == (MondayOf(d) - MondayOf(start)) \div 7 + 1

\* The band of a number of commits: 0; 1-3; 4-7; 8-15; 16 or more
BandOf(count) ==
    CASE count = 0 -> "dot"
      [] count \in 1..3 -> "light shade"
      [] count \in 4..7 -> "medium shade"
      [] count \in 8..15 -> "dark shade"
      [] count >= 16 -> "full block"

CommitsOn(data, d) ==
    Cardinality({i \in 1..Len(data) : toordinal(data[i].date) = d})

\* The cells of the chart that are not blank, as <<row, column>>
CellsShown(rows) ==
    {rc \in (1..7) \X (1..53) :
        rc[2] <= Len(rows[rc[1]]) /\ rows[rc[1]][rc[2]].char # " "}

\* C23: whatever today is, render_contribution_heatmap shows each of the 365
\* days from today-364 to today as exactly one cell, in the row of its
\* weekday and the column of its week, and the cell's band is that of the
\* day's number of commits (0; 1-3; 4-7; 8-15; 16 or more).
C23_EveryDayOfTheYearShown ==
    HeatmapShown =>
        LET today == clock[1]
            start == today - 364
            rows == out[1][2]
        IN  /\ \A d \in start..today :
                  /\ <<RowOf(d), ColumnOf(d, start)>> \in CellsShown(rows)
                  /\ rows[RowOf(d)][ColumnOf(d, start)].char =
                        BandOf(CommitsOn(args.data, d))
            /\ Cardinality(CellsShown(rows)) = 365

\* What does hold: the days of the first 52 week columns are shown so, and
\* no other cell is filled; the days of the 53rd column, today among them,
\* are not shown
HeatmapShowsFirst52Weeks ==
    HeatmapShown =>
        LET today == clock[1]
            start == today - 364
            rows == out[1][2]
            shown == {d \in start..today : ColumnOf(d, start) <= 52}
        IN  /\ \A d \in shown :
                  /\ <<RowOf(d), ColumnOf(d, start)>> \in CellsShown(rows)
                  /\ rows[RowOf(d)][ColumnOf(d, start)].char =
                        BandOf(CommitsOn(args.data, d))
            /\ Cardinality(CellsShown(rows)) = Cardinality(shown)
            /\ today \notin shown
            /\ \A r \in 1..7 : Len(rows[r]) = 52


-----------------------------------------------------------------------------
(* The widths of the bars *)

BarsRendered ==
    /\ entry = "render_bars"
    /\ pc = "done"
    /\ args.data # <<>>

\* The display width: max_width if given (and not 0), else the terminal's
\* columns less 20, else 60
DisplayWidth ==
    IF args.max_width # None /\ args.max_width # Some(0)
    THEN args.max_width[1]
    ELSE IF terminal # None THEN terminal[1] - 20 ELSE 60

\* C24: in render_bars, for a non-empty series of positive counts and a
\* display width W >= 0, each bar's width is the integer part of
\* count * W / max(counts): every width is between 0 and W, the entry with
\* the greatest count gets W, and a greater count never gets a shorter bar.
C24_BarWidths ==
    (BarsRendered /\ DisplayWidth >= 0) =>
        LET bars == out[1][2].bars
            W == DisplayWidth
            top == Max({args.data[i][2] : i \in 1..Len(args.data)})
        IN  /\ Len(bars) = Len(args.data)
            /\ \A i \in 1..Len(bars) :
                  /\ bars[i].count = DictGet(args.data, bars[i].date)
                  /\ bars[i].bar = (bars[i].count * W) \div top
                  /\ bars[i].bar \in 0..W
                  /\ bars[i].count = top => bars[i].bar = W
                  /\ \A j \in 1..Len(bars) :
                        bars[i].count > bars[j].count => bars[i].bar >= bars[j].bar

\* What does hold of the widths: they are between 0 and W, a greater count
\* never gets a shorter bar, and each is the integer part of
\* count * W / max(counts) or one less
BarWidthsWithinOne ==
    (BarsRendered /\ DisplayWidth >= 0) =>
        LET bars == out[1][2].bars
            W == DisplayWidth
            top == Max({args.data[i][2] : i \in 1..Len(args.data)})
        IN  \A i \in 1..Len(bars) :
               /\ bars[i].bar \in 0..W
               /\ bars[i].bar \in {(bars[i].count * W) \div top,
                                   (bars[i].count * W) \div top - 1}
               /\ \A j \in 1..Len(bars) :
                     bars[i].count > bars[j].count => bars[i].bar >= bars[j].bar


-----------------------------------------------------------------------------
(* The box plot *)

BoxplotRendered ==
    /\ entry = "render_boxplot"
    /\ pc # entry
    /\ args.data # <<>>

\* The value at index k (from 0) of the values in ascending order
NthSmallest(values, k) ==
    CHOOSE v \in {values[i] : i \in 1..Len(values)} :
        /\ Cardinality({i \in 1..Len(values) : values[i] < v}) <= k
        /\ k < Cardinality({i \in 1..Len(values) : values[i] <= v})

\* min(terminal_width - 20, 60), the terminal's width being 80 if there is
\* no terminal
ChartWidth == Min({(IF terminal = None THEN 80 ELSE terminal[1]) - 20, 60})

\* C25: for a non-empty list of n integers render_boxplot reports
\* Q1 = sorted[n div 4], median = sorted[n div 2] and Q3 = sorted[3n div 4],
\* so min <= Q1 <= median <= Q3 <= max; it counts as outliers exactly the
\* values below Q1 - 1.5 * (Q3 - Q1) or above Q3 + 1.5 * (Q3 - Q1); and when
\* chart_width >= 0 every glyph it writes is within the row of
\* chart_width + 1 cells: the row is drawn, with the markers of min and max
\* at its ends.
C25_QuartilesOutliersAndRow ==
    BoxplotRendered =>
        LET values == args.data
            n == Len(values)
            said == out[1][2]
            fence == 3 * (said.q3 - said.q1)
            outliers == {i \in 1..n : \/ 2 * values[i] < 2 * said.q1 - fence
                                      \/ 2 * values[i] > 2 * said.q3 + fence}
            row == out[Len(out)][2]
        IN  /\ out[1][1] = "box_plot"
            /\ said.min = Min({values[i] : i \in 1..n})
            /\ said.q1 = NthSmallest(values, n \div 4)
            /\ said.median = NthSmallest(values, n \div 2)
            /\ said.q3 = NthSmallest(values, (3 * n) \div 4)
            /\ said.max = Max({values[i] : i \in 1..n})
            /\ said.min <= said.q1 /\ said.q1 <= said.median
            /\ said.median <= said.q3 /\ said.q3 <= said.max
            /\ IF outliers = {}
               THEN \A k \in 1..Len(out) : out[k][1] # "outliers"
               ELSE out[2] = Said("outliers", Cardinality(outliers))
            /\ ChartWidth >= 0 =>
                  /\ pc = "done"
                  /\ out[Len(out)][1] = "box_plot_line"
                  /\ Len(row) = ChartWidth + 1
                  /\ row[IF said.max > said.min THEN ChartWidth + 1 ELSE 1]
                        = "max marker"
                  /\ (said.max > said.min /\ ChartWidth > 0) => row[1] = "min marker"
                  /\ \A k \in 1..Len(row) :
                        IF said.max > said.min \/ k = 1
                        THEN row[k] \in {"min marker", "max marker", "median",
                                         "box", "whisker"}
                        ELSE row[k] = " "

\* Four values given out of order, the least of them an outlier, on a
\* terminal of 35 columns: a row of 16 cells
C25_Witness ==
    /\ BoxplotRendered
    /\ pc = "done"
    /\ args.data = <<12, 1, -40, 2>>
    /\ terminal = Some(35)
    /\ Len(out) = 3
    /\ out[1] = Said("box_plot",
                     [min |-> -40, q1 |-> 1, median |-> 2, q3 |-> 12, max |-> 12])
    /\ out[2] = Said("outliers", 1)
    /\ Len(out[3][2]) = 16


-----------------------------------------------------------------------------
(* The streaks, one against the other, and the bounds of the longest *)

\* C26: whatever the commit sequence and today, calculate_streaks returns
\* 0 <= current_streak <= longest_streak <= the number of distinct commit
\* dates.
C26_StreaksOrdered ==
    StreaksReturned =>
        /\ 0 <= stats[1].current_streak
        /\ stats[1].current_streak <= stats[1].longest_streak
        /\ stats[1].longest_streak <= Cardinality(CommitDays)

\* Each of the three is less than the next
C26_Witness ==
    /\ StreaksReturned
    /\ 0 < stats[1].current_streak
    /\ stats[1].current_streak < stats[1].longest_streak
    /\ stats[1].longest_streak < Cardinality(CommitDays)
    /\ clock # None

\* C27: for a non-empty commit sequence the bounds calculate_streaks returns
\* delimit a run: end - start is longest_streak - 1 days, every date from
\* start to end is a commit date, the dates just before start and just after
\* end are not, and of several runs of the greatest length the earliest is
\* the one reported.
C27_BoundsOfLongestRun ==
    (StreaksReturned /\ commit_data # <<>>) =>
        LET days == CommitDays
            start == stats[1].longest_streak_start[1]
            end == stats[1].longest_streak_end[1]
            longest == stats[1].longest_streak
        IN  /\ end - start = longest - 1
            /\ \A d \in start..end : d \in days
            /\ (start - 1) \notin days
            /\ (end + 1) \notin days
            /\ \A d \in days : RunEnding(days, d) = longest => d >= end

\* Two runs of two days, 02-29..03-01 and a later one: the earlier is reported
C27_Witness ==
    /\ StreaksReturned
    /\ stats[1].longest_streak = 2
    /\ stats[1].longest_streak_start =
          Some(toordinal(Datetime(2024, 2, 29, 0, 0, 0)))
    /\ stats[1].longest_streak_end = Some(toordinal(Datetime(2024, 3, 1, 0, 0, 0)))
    /\ \E d \in CommitDays :
          /\ d > stats[1].longest_streak_end[1]
          /\ RunEnding(CommitDays, d) = 2


-----------------------------------------------------------------------------
(* main's guard before the insights *)

\* main ended with an exception although every external command succeeded:
\* the ValueError of get_commit_details on an empty sequence
InsightsRaised ==
    /\ entry = "main"
    /\ pc = "raised"
    /\ \A i \in 1..Len(calls) : calls[i].outcome = "ok"

\* C28: in every execution of main, whatever the flags and the fetch result,
\* get_commit_details is invoked only with a non-empty commit sequence: it
\* never raises, and where it was invoked the records fetched are not empty
\* and its result is that of these records.
C28_InsightsOnlyWithCommits ==
    entry = "main" =>
        /\ ~InsightsRaised
        /\ stats # None =>
              /\ commit_data # <<>>
              /\ args.insights
              /\ stats[1].total_commits = Len(commit_data)
        /\ (pc = "done" /\ commit_data = <<>>) =>
              \A k \in 1..Len(out) : out[k][1] # "insights"

\* main with --insights went past the guard with two commits fetched, and
\* get_commit_details returned
C28_Witness ==
    /\ entry = "main"
    /\ pc = "done"
    /\ args.insights
    /\ Len(commit_data) = 2
    /\ stats # None
    /\ stats[1].total_commits = 2
    /\ \E k \in 1..Len(out) : out[k][1] = "insights"

=============================================================================
